---- MODULE Spec2Model ----
(***************************************************************************)
(* Model of the ICD-10 MCP server: the code store (table icd10_codes), the *)
(* synonym / pattern dictionary (tables medical_synonyms, search_patterns) *)
(* and the operations of ICD10Database.ts and of the tool handlers of      *)
(* index.ts.  Strings are TLA+ strings, taken apart with Len, SubSeq and   *)
(* \o, so that every string operation of the source (toUpperCase, replace, *)
(* includes, LIKE, ORDER BY code, ...) is computed character by character. *)
(* A REAL weight w is represented by the integer 10 * w.                   *)
(* parents_loop holds the locals of a getHierarchy call followed iteration *)
(* by iteration, invocations the tools/call requests of the server process *)
(* with the position each has reached.                                     *)
(***************************************************************************)
EXTENDS Integers, Sequences, FiniteSets, TLC

VARIABLES icd10_codes, medical_synonyms, search_patterns, scan_order, request, response,
          parents_loop, invocations

vars == <<icd10_codes, medical_synonyms, search_patterns, scan_order, request, response,
          parents_loop, invocations>>

-----------------------------------------------------------------------------
(* JavaScript and SQLite string primitives                                 *)

\* SQL NULL / a JavaScript null or undefined column value.
NULL == "<NULL>"

\* The printable ASCII characters in code order, from 32 (blank) to 95 and
\* from 97 to 126.
AsciiUpTo95 == " !\"#$%&'()*+,-./0123456789:;<=>?@ABCDEFGHIJKLMNOPQRSTUVWXYZ[\\]^_"

AsciiFrom97 == "abcdefghijklmnopqrstuvwxyz{|}~"

UpperLetters == "ABCDEFGHIJKLMNOPQRSTUVWXYZ"

LowerLetters == "abcdefghijklmnopqrstuvwxyz"

Digits == "0123456789"

charAt(s, i) == SubSeq(s, i + 1, i + 1)

\* 0-based index of the first occurrence of the one-character string c in s,
\* -1 when absent.
indexOfChar(s, c) ==
  LET hits == {i \in 1..Len(s) : SubSeq(s, i, i) = c}
  IN  IF hits = {} THEN -1 ELSE (CHOOSE i \in hits : \A j \in hits : i <= j) - 1

charsOf(s) == {SubSeq(s, i, i) : i \in 1..Len(s)}

\* Code unit of a character: the order of the BINARY collation and of memcmp.
charCodes ==
  [c \in charsOf(AsciiUpTo95) \cup charsOf(AsciiFrom97) |->
     IF indexOfChar(AsciiUpTo95, c) >= 0 THEN 32 + indexOfChar(AsciiUpTo95, c)
     ELSE 97 + indexOfChar(AsciiFrom97, c)]

charCode(c) == charCodes[c]

upperOf == [c \in charsOf(LowerLetters) |-> charAt(UpperLetters, indexOfChar(LowerLetters, c))]

lowerOf == [c \in charsOf(UpperLetters) |-> charAt(LowerLetters, indexOfChar(UpperLetters, c))]

toUpperChar(c) == IF c \in DOMAIN upperOf THEN upperOf[c] ELSE c

toLowerChar(c) == IF c \in DOMAIN lowerOf THEN lowerOf[c] ELSE c

RECURSIVE toUpperCase(_)
toUpperCase(s) ==
  IF s = "" THEN ""
  ELSE toUpperChar(SubSeq(s, 1, 1)) \o toUpperCase(SubSeq(s, 2, Len(s)))

RECURSIVE toLowerCase(_)
toLowerCase(s) ==
  IF s = "" THEN ""
  ELSE toLowerChar(SubSeq(s, 1, 1)) \o toLowerCase(SubSeq(s, 2, Len(s)))

isSpace(c) == c \in {" ", "\t", "\n", "\r"}

\* The class \w of a regular expression.
wordChars == charsOf(UpperLetters) \cup charsOf(LowerLetters) \cup charsOf(Digits) \cup {"_"}

isWordChar(c) == c \in wordChars

RECURSIVE trimStart(_)
trimStart(s) ==
  IF s # "" /\ isSpace(SubSeq(s, 1, 1)) THEN trimStart(SubSeq(s, 2, Len(s))) ELSE s

RECURSIVE trimEnd(_)
trimEnd(s) ==
  IF s # "" /\ isSpace(SubSeq(s, Len(s), Len(s)))
  THEN trimEnd(SubSeq(s, 1, Len(s) - 1)) ELSE s

trim(s) == trimEnd(trimStart(s))

startsWith(s, p) == Len(p) <= Len(s) /\ SubSeq(s, 1, Len(p)) = p

endsWith(s, p) == Len(p) <= Len(s) /\ SubSeq(s, Len(s) - Len(p) + 1, Len(s)) = p

\* String.prototype.indexOf: 0-based index of the first occurrence, else -1.
indexOf(s, sub) ==
  LET hits == {i \in 0..(Len(s) - Len(sub)) : SubSeq(s, i + 1, i + Len(sub)) = sub}
  IN  IF hits = {} THEN -1 ELSE CHOOSE i \in hits : \A j \in hits : i <= j

\* String.prototype.lastIndexOf: 0-based index of the last occurrence, else -1.
lastIndexOf(s, sub) ==
  LET hits == {i \in 0..(Len(s) - Len(sub)) : SubSeq(s, i + 1, i + Len(sub)) = sub}
  IN  IF hits = {} THEN -1 ELSE CHOOSE i \in hits : \A j \in hits : i >= j

includes(s, sub) == indexOf(s, sub) >= 0

\* String.prototype.substring(from, to) for 0 <= from <= to <= length.
substring(s, from, to) == SubSeq(s, from + 1, to)

\* String.prototype.slice(0, -1): everything but the last character.
sliceDropLast(s) == SubSeq(s, 1, Len(s) - 1)

\* String.prototype.replace with a string pattern: the FIRST occurrence only.
replace(s, pat, rep) ==
  LET i == indexOf(s, pat)
  IN  IF i < 0 THEN s
      ELSE SubSeq(s, 1, i) \o rep \o SubSeq(s, i + Len(pat) + 1, Len(s))

\* Array.prototype.join.
RECURSIVE join(_, _)
join(arr, sep) ==
  IF Len(arr) = 0 THEN ""
  ELSE IF Len(arr) = 1 THEN arr[1]
  ELSE arr[1] \o sep \o join(Tail(arr), sep)

\* memcmp order of two strings (SQLite BINARY collation, used by ORDER BY code
\* and by the comparison of TEXT dates).
RECURSIVE binaryLess(_, _)
binaryLess(a, b) ==
  IF b = "" THEN FALSE
  ELSE IF a = "" THEN TRUE
  ELSE IF SubSeq(a, 1, 1) = SubSeq(b, 1, 1)
       THEN binaryLess(SubSeq(a, 2, Len(a)), SubSeq(b, 2, Len(b)))
       ELSE charCode(SubSeq(a, 1, 1)) < charCode(SubSeq(b, 1, 1))

\* SQLite LIKE without ESCAPE: '%' matches any run of characters, '_' any
\* single character, every other character matches itself up to ASCII case.
RECURSIVE like(_, _)
like(text, pattern) ==
  IF pattern = "" THEN text = ""
  ELSE LET p == SubSeq(pattern, 1, 1)
           rest == SubSeq(pattern, 2, Len(pattern))
       IN  IF p = "%"
           THEN \E k \in 0..Len(text) : like(SubSeq(text, k + 1, Len(text)), rest)
           ELSE IF text = "" THEN FALSE
           ELSE IF p = "_" \/ toUpperChar(p) = toUpperChar(SubSeq(text, 1, 1))
                THEN like(SubSeq(text, 2, Len(text)), rest)
                ELSE FALSE

\* ORDER BY code: the rows of a set of ids in ascending BINARY order.
RECURSIVE orderByCode(_)
orderByCode(ids) ==
  IF ids = {} THEN <<>>
  ELSE LET first == CHOOSE c \in ids : \A d \in ids \ {c} : binaryLess(c, d)
       IN  <<first>> \o orderByCode(ids \ {first})

-----------------------------------------------------------------------------
(* The code store: table icd10_codes, primary key code                      *)

\* JavaScript truthiness of an optional string argument or column.
truthy(v) == v # NULL /\ v # ""

\* A field of a Partial<ICD10Code>: undefined when the key is missing.
field(codeData, key) == IF key \in DOMAIN codeData THEN codeData[key] ELSE NULL

\* value || fallback
orElse(v, fallback) == IF truthy(v) THEN v ELSE fallback

Endocrine == "Endocrine, nutritional and metabolic diseases"

\* The records handed to insertCode: rows of the sample data, one of them with
\* its code in lower case, one already retired at the 2024 revision.
CodeInputs ==
  { [code |-> "E10", description |-> "Type 1 diabetes mellitus",
     category |-> "E10", subcategory |-> "E10", chapter_code |-> "E00-E89",
     chapter_name |-> Endocrine, is_billable |-> FALSE, is_valid_primary |-> TRUE,
     effective_date |-> "2024-10-01", revision_year |-> 2024],
    [code |-> "E11", description |-> "Type 2 diabetes mellitus",
     category |-> "E11", subcategory |-> "E11", chapter_code |-> "E00-E89",
     chapter_name |-> Endocrine, is_billable |-> FALSE, is_valid_primary |-> TRUE,
     effective_date |-> "2024-10-01", revision_year |-> 2024],
    [code |-> "E11.9", description |-> "Type 2 diabetes mellitus without complications",
     category |-> "E11", subcategory |-> "E11.9", chapter_code |-> "E00-E89",
     chapter_name |-> Endocrine, is_billable |-> TRUE, is_valid_primary |-> TRUE,
     effective_date |-> "2023-10-01", end_date |-> "2024-10-01",
     revision_year |-> 2023],
    [code |-> "e11.21", description |-> "Type 2 diabetes mellitus with diabetic nephropathy",
     category |-> "E11", subcategory |-> "E11.21", chapter_code |-> "E00-E89",
     chapter_name |-> Endocrine, is_billable |-> TRUE, is_valid_primary |-> TRUE,
     effective_date |-> "2024-10-01", revision_year |-> 2024],
    [code |-> "E11.22", description |-> "Type 2 diabetes mellitus with diabetic chronic kidney disease",
     category |-> "E11", subcategory |-> "E11.22", chapter_code |-> "E00-E89",
     chapter_name |-> Endocrine, is_billable |-> TRUE, is_valid_primary |-> TRUE,
     revision_year |-> 2024] }

\* Records of Partial<ICD10Code> as any caller of insertCode may build them:
\* the id of a sample row in upper case with other data, a category with its
\* required fields only, a subcategory without a description, a record
\* without a code.
PartialCodeInputs ==
  { [code |-> "E11.21", description |-> "Type 2 diabetes mellitus with diabetic nephropathy (revised)",
     category |-> "E11", is_billable |-> TRUE, revision_year |-> 2025],
    [code |-> "e11", description |-> "Type 2 diabetes mellitus"],
    [code |-> "E11.2", is_billable |-> FALSE],
    [description |-> "Unspecified"] }

\* The same row with the code bound as given, not upper-cased.
insertRowAsGiven(codeData) ==
  [code             |-> orElse(field(codeData, "code"), ""),
   description      |-> orElse(field(codeData, "description"), ""),
   category         |-> orElse(field(codeData, "category"), ""),
   subcategory      |-> orElse(field(codeData, "subcategory"), ""),
   chapter_code     |-> orElse(field(codeData, "chapter_code"), ""),
   chapter_name     |-> orElse(field(codeData, "chapter_name"), ""),
   is_billable      |-> IF "is_billable" \in DOMAIN codeData /\ codeData.is_billable
                        THEN 1 ELSE 0,
   is_valid_primary |-> IF "is_valid_primary" \in DOMAIN codeData /\ codeData.is_valid_primary
                        THEN 1 ELSE 0,
   effective_date   |-> field(codeData, "effective_date"),
   end_date         |-> field(codeData, "end_date"),
   revision_year    |-> IF "revision_year" \in DOMAIN codeData
                        THEN codeData.revision_year ELSE 0]

\* The row insertCode binds to INSERT OR REPLACE.  A NULL revision_year is
\* written 0 (both are falsy wherever the column is read).
insertRow(codeData) ==
  [code             |-> IF field(codeData, "code") = NULL THEN ""
                        ELSE orElse(toUpperCase(codeData.code), ""),
   description      |-> orElse(field(codeData, "description"), ""),
   category         |-> orElse(field(codeData, "category"), ""),
   subcategory      |-> orElse(field(codeData, "subcategory"), ""),
   chapter_code     |-> orElse(field(codeData, "chapter_code"), ""),
   chapter_name     |-> orElse(field(codeData, "chapter_name"), ""),
   is_billable      |-> IF "is_billable" \in DOMAIN codeData /\ codeData.is_billable
                        THEN 1 ELSE 0,
   is_valid_primary |-> IF "is_valid_primary" \in DOMAIN codeData /\ codeData.is_valid_primary
                        THEN 1 ELSE 0,
   effective_date   |-> field(codeData, "effective_date"),
   end_date         |-> field(codeData, "end_date"),
   revision_year    |-> IF "revision_year" \in DOMAIN codeData
                        THEN codeData.revision_year ELSE 0]

\* INSERT OR REPLACE: a row with the same primary key is replaced.
insertCode(codeData) ==
  LET row == insertRow(codeData)
  IN  icd10_codes' = [id \in DOMAIN icd10_codes \cup {row.code} |->
                        IF id = row.code THEN row ELSE icd10_codes[id]]

\* The same filter with end_date >= D in place of end_date > D.
inEffectThroughEnd(row, D) ==
  /\ row.effective_date = NULL \/ row.effective_date = D \/ binaryLess(row.effective_date, D)
  /\ row.end_date = NULL \/ row.end_date = D \/ binaryLess(D, row.end_date)

\* (effective_date IS NULL OR effective_date <= D) AND (end_date IS NULL OR end_date > D)
inEffect(row, D) ==
  /\ row.effective_date = NULL \/ row.effective_date = D \/ binaryLess(row.effective_date, D)
  /\ row.end_date = NULL \/ binaryLess(D, row.end_date)

\* The result is <<row>> for a row and <<>> for null.
getCode(code, effectiveDate) ==
  LET id == toUpperCase(code)
  IN  IF /\ id \in DOMAIN icd10_codes
         /\ truthy(effectiveDate) => inEffect(icd10_codes[id], effectiveDate)
      THEN <<icd10_codes[id]>>
      ELSE <<>>

\* The rows of a sequence of ids.
rowsOf(ids) == [i \in 1..Len(ids) |-> icd10_codes[ids[i]]]

-----------------------------------------------------------------------------
(* getHierarchy                                                             *)

\* SELECT * WHERE code LIKE ? AND code != ? ORDER BY code
selectLike(pattern, excluded) ==
  rowsOf(orderByCode({id \in DOMAIN icd10_codes : like(id, pattern) /\ id # excluded}))

\* The same query without its LENGTH(code) = ? condition.
selectLikeAnyLength(pattern, length, excluded) ==
  rowsOf(orderByCode({id \in DOMAIN icd10_codes : like(id, pattern) /\ id # excluded}))

\* SELECT * WHERE code LIKE ? AND LENGTH(code) = ? AND code != ? ORDER BY code
selectLikeLength(pattern, length, excluded) ==
  rowsOf(orderByCode({id \in DOMAIN icd10_codes :
                        like(id, pattern) /\ Len(id) = length /\ id # excluded}))

\* A strip that always drops one character.
stripLastCharacter(current) == sliceDropLast(current)

\* One strip of the parents loop.
stripCurrent(current) ==
  IF endsWith(current, ".") THEN sliceDropLast(current)
  ELSE IF includes(current, ".") THEN substring(current, 0, lastIndexOf(current, "."))
  ELSE sliceDropLast(current)

\* One iteration of a loop whose strip keeps the dot it cuts at.
parentsStepKeepingDot(loop) ==
  LET next == IF includes(loop.current, ".")
              THEN substring(loop.current, 0, lastIndexOf(loop.current, ".") + 1)
              ELSE sliceDropLast(loop.current)
  IN  [pc         |-> "while",
       code       |-> loop.code,
       maxDepth   |-> loop.maxDepth,
       current    |-> next,
       parents    |-> IF next # "" /\ next \in DOMAIN icd10_codes
                      THEN Append(loop.parents, icd10_codes[next]) ELSE loop.parents,
       iterations |-> loop.iterations + 1]

\* One iteration of the while loop of the parents branch: the strip of
\* current, then the SELECT of the code that is left if (current); iterations
\* counts the iterations run.
parentsStep(loop) ==
  LET next == stripCurrent(loop.current)
  IN  [pc         |-> "while",
       code       |-> loop.code,
       maxDepth   |-> loop.maxDepth,
       current    |-> next,
       parents    |-> IF next # "" /\ next \in DOMAIN icd10_codes
                      THEN Append(loop.parents, icd10_codes[next]) ELSE loop.parents,
       iterations |-> loop.iterations + 1]

\* while (current.length > 1 && parents.length < maxDepth)
parentsCondition(loop, maxDepth) ==
  Len(loop.current) > 1 /\ Len(loop.parents) < maxDepth

\* The same loop without its parents.length < maxDepth condition.
RECURSIVE parentsLoopUnbounded(_, _, _)
parentsLoopUnbounded(current, parents, maxDepth) ==
  IF Len(current) > 1
  THEN LET next == stripCurrent(current)
       IN  IF next # "" /\ next \in DOMAIN icd10_codes
           THEN parentsLoopUnbounded(next, Append(parents, icd10_codes[next]), maxDepth)
           ELSE parentsLoopUnbounded(next, parents, maxDepth)
  ELSE parents

\* The while loop of the parents branch, from the state (current, parents).
RECURSIVE parentsLoop(_, _, _)
parentsLoop(current, parents, maxDepth) ==
  IF Len(current) > 1 /\ Len(parents) < maxDepth
  THEN LET next == stripCurrent(current)
       IN  IF next # "" /\ next \in DOMAIN icd10_codes
           THEN parentsLoop(next, Append(parents, icd10_codes[next]), maxDepth)
           ELSE parentsLoop(next, parents, maxDepth)
  ELSE parents

getHierarchy(code, direction, maxDepth) ==
  LET normalizedCode == toUpperCase(code)
  IN  IF direction = "children"
      THEN selectLike(normalizedCode \o "%", normalizedCode)
      ELSE IF direction = "parents"
      THEN parentsLoop(normalizedCode, <<>>, maxDepth)
      ELSE IF direction = "siblings"
      THEN IF includes(normalizedCode, ".")
           THEN LET parent == substring(normalizedCode, 0, lastIndexOf(normalizedCode, "."))
                IN  selectLike(parent \o ".%", normalizedCode)
           ELSE LET parent == IF Len(normalizedCode) > 1
                              THEN sliceDropLast(normalizedCode) ELSE normalizedCode
                IN  selectLikeLength(parent \o "%", Len(normalizedCode), normalizedCode)
      ELSE <<>>

\* The placeholder base code handleHierarchy builds when the code is not stored.
virtualBaseCode(code, firstResult) ==
  [code             |-> code,
   description      |-> code \o " category codes",
   category         |-> IF Len(code) >= 3 THEN substring(code, 0, 3) ELSE code,
   subcategory      |-> code,
   chapter_code     |-> orElse(firstResult.chapter_code, ""),
   chapter_name     |-> orElse(firstResult.chapter_name, ""),
   is_billable      |-> FALSE,
   is_valid_primary |-> TRUE,
   effective_date   |-> firstResult.effective_date,
   revision_year    |-> IF firstResult.revision_year # 0
                        THEN firstResult.revision_year ELSE 2024]

\* The handler without the placeholder branch: a base code that is not stored
\* is always an error.
handleHierarchyStoredOnly(code, direction, max_depth) ==
  LET hierarchyResults == getHierarchy(code, direction, max_depth)
      stored == getCode(code, NULL)
  IN  IF stored = <<>>
      THEN [error |-> "InvalidParams"]
      ELSE [base_code     |-> stored[1],
            direction     |-> direction,
            max_depth     |-> max_depth,
            total_results |-> Len(hierarchyResults),
            results       |-> hierarchyResults]

handleHierarchy(code, direction, max_depth) ==
  LET hierarchyResults == getHierarchy(code, direction, max_depth)
      stored == getCode(code, NULL)
  IN  IF stored = <<>> /\ Len(hierarchyResults) = 0
      THEN [error |-> "InvalidParams"]
      ELSE [base_code     |-> IF stored # <<>> THEN stored[1]
                              ELSE virtualBaseCode(code, hierarchyResults[1]),
            direction     |-> direction,
            max_depth     |-> max_depth,
            total_results |-> Len(hierarchyResults),
            results       |-> hierarchyResults]

\* Array.prototype.slice(0, n)
slice0(arr, n) == SubSeq(arr, 1, IF Len(arr) < n THEN Len(arr) ELSE n)

\* The LookupResponse of the lookup handler.
handleLookup(code, include_hierarchy, effective_date) ==
  LET result == getCode(code, effective_date)
  IN  IF result = <<>>
      THEN [found |-> FALSE, error |-> "Code not found"]
      ELSE IF include_hierarchy
      THEN [found     |-> TRUE,
            code      |-> result[1],
            hierarchy |-> [parents  |-> getHierarchy(code, "parents", 3),
                           children |-> getHierarchy(code, "children", 2),
                           siblings |-> slice0(getHierarchy(code, "siblings", 2), 10)]]
      ELSE [found |-> TRUE, code |-> result[1]]

-----------------------------------------------------------------------------
(* validateCodes and the validate-batch handler                             *)

\* The same query without the effective-date filter.
foundCodeMapAnyDate(normalizedCodes, effectiveDate) ==
  LET found == {id \in DOMAIN icd10_codes :
                  \E i \in 1..Len(normalizedCodes) : normalizedCodes[i] = id}
  IN  [id \in found |-> icd10_codes[id]]

\* SELECT ... WHERE code IN (...) [AND the effective-date filter], as the Map
\* foundCodeMap keyed by code.
foundCodeMap(normalizedCodes, effectiveDate) ==
  LET found == {id \in DOMAIN icd10_codes :
                  /\ \E i \in 1..Len(normalizedCodes) : normalizedCodes[i] = id
                  /\ truthy(effectiveDate) => inEffect(icd10_codes[id], effectiveDate)}
  IN  [id \in found |-> icd10_codes[id]]

validationEntry(found, code, checkBillable) ==
  IF code \in DOMAIN found
  THEN LET codeData == found[code]
           entry == [valid          |-> TRUE,
                     billable       |-> codeData.is_billable # 0,
                     description    |-> codeData.description,
                     effective_date |-> codeData.effective_date,
                     end_date       |-> codeData.end_date]
       IN  IF checkBillable /\ codeData.is_billable = 0
           THEN [k \in DOMAIN entry \cup {"warning"} |->
                   IF k = "warning" THEN "Code exists but is not billable" ELSE entry[k]]
           ELSE entry
  ELSE [valid |-> FALSE, billable |-> FALSE, error |-> "Code not found"]

\* The for loop over normalizedCodes: result[code] = ... for each code in turn.
RECURSIVE validateLoop(_, _, _, _)
validateLoop(normalizedCodes, found, checkBillable, result) ==
  IF Len(normalizedCodes) = 0 THEN result
  ELSE LET code == Head(normalizedCodes)
           entry == validationEntry(found, code, checkBillable)
       IN  validateLoop(Tail(normalizedCodes), found, checkBillable,
                        [k \in DOMAIN result \cup {code} |->
                           IF k = code THEN entry ELSE result[k]])

\* A validation whose rows are consumed by the call that reads them: one that
\* follows a validation finds nothing.
validateCodesOnce(codes, checkBillable, effectiveDate) ==
  IF Len(codes) = 0 THEN <<>>
  ELSE LET normalizedCodes == [i \in 1..Len(codes) |-> toUpperCase(codes[i])]
       IN  validateLoop(normalizedCodes,
                        IF request.tool = "icd10_validate_batch" THEN <<>>
                        ELSE foundCodeMap(normalizedCodes, effectiveDate),
                        checkBillable, <<>>)

validateCodes(codes, checkBillable, effectiveDate) ==
  IF Len(codes) = 0 THEN <<>>
  ELSE LET normalizedCodes == [i \in 1..Len(codes) |-> toUpperCase(codes[i])]
       IN  validateLoop(normalizedCodes, foundCodeMap(normalizedCodes, effectiveDate),
                        checkBillable, <<>>)

\* Object.values(obj).length: the filter left out.
countValuesUnfiltered(obj, keys, flag) == Cardinality(keys)

\* Object.values(obj).filter(r => r[flag]).length
RECURSIVE countValues(_, _, _)
countValues(obj, keys, flag) ==
  IF keys = {} THEN 0
  ELSE LET k == CHOOSE x \in keys : TRUE
       IN  (IF obj[k][flag] THEN 1 ELSE 0) + countValues(obj, keys \ {k}, flag)

handleValidateBatch(codes, check_billable, effective_date) ==
  LET validationResults == validateCodes(codes, check_billable, effective_date)
      validCount == countValues(validationResults, DOMAIN validationResults, "valid")
      billableCount == countValues(validationResults, DOMAIN validationResults, "billable")
  IN  [total_codes        |-> Len(codes),
       valid_codes        |-> validCount,
       billable_codes     |-> billableCount,
       invalid_codes      |-> Len(codes) - validCount,
       validation_results |-> validationResults,
       effective_date     |-> effective_date]

-----------------------------------------------------------------------------
(* The synonym / pattern dictionary and enhanceSearchQuery                  *)

\* synonymData: term, synonym, 10 * weight, context.
synonymData ==
  <<
     <<"broken", "fracture", 10, "injury">>,
     <<"broken", "fractured", 9, "injury">>,
     <<"heart attack", "myocardial infarction", 10, "cardiac">>,
     <<"heart attack", "MI", 8, "cardiac">>,
     <<"heart attack", "cardiac arrest", 7, "cardiac">>,
     <<"stroke", "cerebrovascular accident", 10, "neurological">>,
     <<"stroke", "CVA", 9, "neurological">>,
     <<"high blood pressure", "hypertension", 10, "cardiovascular">>,
     <<"low blood pressure", "hypotension", 10, "cardiovascular">>,
     <<"sugar", "diabetes", 8, "endocrine">>,
     <<"sugar", "glucose", 7, "endocrine">>,
     <<"kidney", "renal", 10, "anatomy">>,
     <<"kidney", "nephro", 9, "anatomy">>,
     <<"liver", "hepatic", 10, "anatomy">>,
     <<"liver", "hepato", 9, "anatomy">>,
     <<"lung", "pulmonary", 10, "anatomy">>,
     <<"lung", "pneumo", 9, "anatomy">>,
     <<"brain", "cerebral", 10, "anatomy">>,
     <<"brain", "cranial", 9, "anatomy">>,
     <<"stomach", "gastric", 10, "anatomy">>,
     <<"stomach", "gastro", 9, "anatomy">>,
     <<"pain", "algia", 9, "symptom">>,
     <<"pain", "ache", 8, "symptom">>,
     <<"fever", "pyrexia", 10, "symptom">>,
     <<"fever", "febrile", 9, "symptom">>,
     <<"headache", "cephalgia", 10, "symptom">>,
     <<"headache", "migraine", 7, "symptom">>,
     <<"throwing up", "vomiting", 10, "symptom">>,
     <<"throwing up", "emesis", 9, "symptom">>,
     <<"cancer", "malignant", 9, "condition">>,
     <<"cancer", "neoplasm", 10, "condition">>,
     <<"cancer", "tumor", 8, "condition">>,
     <<"cancer", "carcinoma", 9, "condition">>,
     <<"infection", "infectious", 9, "condition">>,
     <<"infection", "sepsis", 7, "condition">>,
     <<"inflammation", "inflammatory", 10, "condition">>,
     <<"inflammation", "itis", 8, "condition">>
  >>

\* patterns: pattern, expansion, priority.
patterns ==
  << <<"broken {BODYPART}", "fracture {BODYPART}", 10>>,
     <<"{BODYPART} fracture", "fracture {BODYPART}", 9>>,
     <<"pain in {BODYPART}", "{BODYPART} pain OR {BODYPART} algia", 8>>,
     <<"{BODYPART} pain", "{BODYPART} algia OR painful {BODYPART}", 8>>,
     <<"can't breathe", "dyspnea OR respiratory distress OR shortness of breath", 10>>,
     <<"trouble breathing", "dyspnea OR respiratory distress", 9>>,
     <<"chest pain", "angina OR thoracic pain OR cardiac pain", 9>> >>

synonymRow(t) == [term |-> t[1], synonym |-> t[2], weight |-> t[3], context |-> t[4]]

patternRow(t) == [pattern |-> t[1], expansion |-> t[2], priority |-> t[3]]

\* The two transactions without the check of the count before them.
initializeMedicalSynonymsUnchecked ==
  /\ medical_synonyms' =
       medical_synonyms \o [i \in 1..Len(synonymData) |-> synonymRow(synonymData[i])]
  /\ search_patterns' =
       search_patterns \o [i \in 1..Len(patterns) |-> patternRow(patterns[i])]

\* if (count.count > 0) return; otherwise the synonyms, then the patterns,
\* are inserted.
initializeMedicalSynonyms ==
  IF Len(medical_synonyms) > 0
  THEN UNCHANGED <<medical_synonyms, search_patterns>>
  ELSE /\ medical_synonyms' =
            medical_synonyms \o [i \in 1..Len(synonymData) |-> synonymRow(synonymData[i])]
       /\ search_patterns' =
            search_patterns \o [i \in 1..Len(patterns) |-> patternRow(patterns[i])]

bodyParts ==
  <<"arm", "leg", "bone", "head", "chest", "back", "neck", "shoulder", "knee",
    "hip", "ankle", "wrist", "elbow">>

\* ORDER BY priority ASC in place of DESC.
RECURSIVE orderByPriorityAsc(_)
orderByPriorityAsc(rows) ==
  IF rows = {} THEN {<<>>}
  ELSE LET top == {i \in rows : \A j \in rows :
                     search_patterns[i].priority <= search_patterns[j].priority}
       IN  UNION {{<<i>> \o rest : rest \in orderByPriorityAsc(rows \ {i})} : i \in top}

\* The possible results of SELECT ... FROM search_patterns ORDER BY priority DESC,
\* as sequences of row numbers: rows of equal priority come in an order the
\* query does not fix.
RECURSIVE orderByPriorityDesc(_)
orderByPriorityDesc(rows) ==
  IF rows = {} THEN {<<>>}
  ELSE LET top == {i \in rows : \A j \in rows :
                     search_patterns[i].priority >= search_patterns[j].priority}
       IN  UNION {{<<i>> \o rest : rest \in orderByPriorityDesc(rows \ {i})} : i \in top}

\* ORDER BY weight ASC in place of DESC.
RECURSIVE orderByWeightAsc(_)
orderByWeightAsc(rows) ==
  IF rows = {} THEN {<<>>}
  ELSE LET top == {i \in rows : \A j \in rows :
                     medical_synonyms[i].weight <= medical_synonyms[j].weight}
       IN  UNION {{<<i>> \o rest : rest \in orderByWeightAsc(rows \ {i})} : i \in top}

\* The possible results of SELECT synonym, weight FROM medical_synonyms
\* WHERE term = ? ORDER BY weight DESC, as sequences of row numbers.
RECURSIVE orderByWeightDesc(_)
orderByWeightDesc(rows) ==
  IF rows = {} THEN {<<>>}
  ELSE LET top == {i \in rows : \A j \in rows :
                     medical_synonyms[i].weight >= medical_synonyms[j].weight}
       IN  UNION {{<<i>> \o rest : rest \in orderByWeightDesc(rows \ {i})} : i \in top}

\* Rows of equal sort key in an order that is not a function of the database.
anyOrdered(selected, keyOf) == TRUE

\* ORDER BY leaves the order of rows of equal sort key to the engine, which
\* returns them as its scan of the table meets them: by rowid, in the direction
\* scan_order of the plan it compiles, the same for every run of the statement
\* over the same database.
rowidOrdered(selected, keyOf) ==
  \A a, b \in 1..Len(selected) :
    (a < b /\ keyOf[selected[a]] = keyOf[selected[b]]) =>
      IF scan_order = "ascending" THEN selected[a] < selected[b]
      ELSE selected[a] > selected[b]

\* SELECT pattern, expansion FROM search_patterns ORDER BY priority DESC
selectPatterns ==
  {selected \in orderByPriorityDesc(1..Len(search_patterns)) :
     rowidOrdered(selected, [i \in 1..Len(search_patterns) |-> search_patterns[i].priority])}

\* SELECT synonym, weight FROM medical_synonyms WHERE term = ? ORDER BY weight DESC
selectSynonyms(term) ==
  {selected \in orderByWeightDesc({i \in 1..Len(medical_synonyms) :
                                     medical_synonyms[i].term = term}) :
     rowidOrdered(selected, [i \in 1..Len(medical_synonyms) |-> medical_synonyms[i].weight])}

\* The inner loop over bodyParts for one pattern: <<expansion>> on the first
\* concretized pattern found in the query, <<>> when none is.
RECURSIVE bodyPartLoop(_, _, _, _)
bodyPartLoop(lowerQuery, pattern, expansion, k) ==
  IF k > Len(bodyParts) THEN <<>>
  ELSE LET bodyPart == bodyParts[k]
           concretePattern == replace(pattern, "{BODYPART}", bodyPart)
       IN  IF includes(lowerQuery, toLowerCase(concretePattern))
           THEN <<replace(expansion, "{BODYPART}", bodyPart)>>
           ELSE bodyPartLoop(lowerQuery, pattern, expansion, k + 1)

\* The body of the loop over patterns for one row: the value returned, if any.
patternBody(lowerQuery, row) ==
  LET concrete == bodyPartLoop(lowerQuery, row.pattern, row.expansion, 1)
  IN  IF concrete # <<>> THEN concrete
      ELSE IF ~includes(row.pattern, "{") /\ includes(lowerQuery, toLowerCase(row.pattern))
      THEN <<row.expansion>>
      ELSE <<>>

\* patternBody of every row of search_patterns from row k on, by row number.
RECURSIVE patternBodies(_, _)
patternBodies(lowerQuery, k) ==
  IF k > Len(search_patterns) THEN <<>>
  ELSE <<patternBody(lowerQuery, search_patterns[k])>> \o patternBodies(lowerQuery, k + 1)

\* The loop over the selected patterns: the first row, in the order selected,
\* whose body returns.
RECURSIVE patternLoop(_, _, _)
patternLoop(bodies, selected, k) ==
  IF k > Len(selected) THEN <<>>
  ELSE IF bodies[selected[k]] # <<>> THEN bodies[selected[k]]
  ELSE patternLoop(bodies, selected, k + 1)

\* lowerQuery.split(/\s+/), acc being the word under construction.
RECURSIVE split(_, _)
split(s, acc) ==
  IF s = "" THEN <<acc>>
  ELSE IF isSpace(SubSeq(s, 1, 1))
       THEN <<acc>> \o split(trimStart(s), "")
       ELSE split(SubSeq(s, 2, Len(s)), acc \o SubSeq(s, 1, 1))

\* word.replace(/[^\w]/g, '')
RECURSIVE cleanWordOf(_)
cleanWordOf(word) ==
  IF word = "" THEN ""
  ELSE (IF isWordChar(SubSeq(word, 1, 1)) THEN SubSeq(word, 1, 1) ELSE "")
       \o cleanWordOf(SubSeq(word, 2, Len(word)))

\* Set.prototype.add on a Set kept in insertion order.
setAdd(terms, x) ==
  IF \E i \in 1..Len(terms) : terms[i] = x THEN terms ELSE Append(terms, x)

\* for (const { synonym } of synonyms) expandedTerms.add(synonym)
RECURSIVE addSynonyms(_, _, _)
addSynonyms(expandedTerms, selected, k) ==
  IF k > Len(selected) THEN expandedTerms
  ELSE addSynonyms(setAdd(expandedTerms, medical_synonyms[selected[k]].synonym),
                   selected, k + 1)

\* The loop over words: the possible final contents of expandedTerms.
RECURSIVE termLoop(_, _)
termLoop(words, expandedTerms) ==
  IF Len(words) = 0 THEN {expandedTerms}
  ELSE LET cleanWord == cleanWordOf(Head(words))
       IN  IF Len(cleanWord) < 3 THEN termLoop(Tail(words), expandedTerms)
           ELSE UNION {termLoop(Tail(words),
                                addSynonyms(setAdd(expandedTerms, cleanWord), selected, 1)) :
                         selected \in selectSynonyms(cleanWord)}

normalizeQuery(query) == trim(toLowerCase(query))

\* The values enhanceSearchQuery can return for a query.
enhanceSearchQuery(query) ==
  LET lowerQuery == normalizeQuery(query)
      bodies == patternBodies(lowerQuery, 1)
      termResults == {join(terms, " OR ") : terms \in termLoop(split(lowerQuery, ""), <<>>)}
  IN  UNION {LET hit == patternLoop(bodies, selected, 1)
             IN  IF hit # <<>> THEN {hit[1]} ELSE termResults :
               selected \in selectPatterns}

\* The rows addMedicalSynonym and addSearchPattern append.
addedSynonymRow(term, synonym, weight, context) ==
  [term |-> toLowerCase(term), synonym |-> toLowerCase(synonym),
   weight |-> weight, context |-> context]

addedPatternRow(pattern, expansion, priority) ==
  [pattern |-> toLowerCase(pattern), expansion |-> expansion, priority |-> priority]

-----------------------------------------------------------------------------
(* searchCodes and the search handler                                       *)

\* The characters of a token of the unicode61 tokenizer, over ASCII.
tokenChars == charsOf(UpperLetters) \cup charsOf(LowerLetters) \cup charsOf(Digits)

\* The tokens the tokenizer of icd10_fts makes of a text: its maximal runs of
\* letters and digits, in lower case; acc is the token under construction.
RECURSIVE tokenize(_, _)
tokenize(s, acc) ==
  IF s = "" THEN (IF acc = "" THEN <<>> ELSE <<acc>>)
  ELSE LET c == SubSeq(s, 1, 1)
       IN  IF c \in tokenChars
           THEN tokenize(SubSeq(s, 2, Len(s)), acc \o toLowerCase(c))
           ELSE (IF acc = "" THEN <<>> ELSE <<acc>>) \o tokenize(SubSeq(s, 2, Len(s)), "")

tokensOf(s) == LET tokens == tokenize(s, "") IN {tokens[i] : i \in 1..Len(tokens)}

\* The tokens indexed for a row: fts5(code, description, category, chapter_name).
\* The index is modelled in step with the table.
ftsDocument(row) ==
  tokenize(row.code, "") \o tokenize(row.description, "")
    \o tokenize(row.category, "") \o tokenize(row.chapter_name, "")

\* The words of a MATCH expression.
ftsWords(expression) == SelectSeq(split(expression, ""), LAMBDA w : w # "")

\* The words between the OR operators of the expression; acc is the group
\* under construction.
RECURSIVE orGroups(_, _)
orGroups(words, acc) ==
  IF Len(words) = 0 THEN <<acc>>
  ELSE IF Head(words) = "OR" THEN <<acc>> \o orGroups(Tail(words), <<>>)
  ELSE orGroups(Tail(words), Append(acc, Head(words)))

\* MATCH raises an error for an expression that is not a query of FTS5: here
\* one with a character outside barewords (as in an empty expression, "can't"
\* or "{BODYPART}") or with nothing on a side of an OR.  The expressions are
\* those enhanceSearchQuery builds: words and OR.
ftsSyntaxError(expression) ==
  LET words == ftsWords(expression)
      groups == orGroups(words, <<>>)
  IN  \/ \E i \in 1..Len(words) : \E c \in charsOf(words[i]) : ~isWordChar(c)
      \/ \E g \in 1..Len(groups) : Len(groups[g]) = 0

\* icd10_fts MATCH ?: the ids of the rows that hold every word of one of the
\* groups of the expression (words side by side are joined by an implicit AND,
\* which binds tighter than OR).
ftsMatch(expression) ==
  LET groups == orGroups(ftsWords(expression), <<>>)
      phrases == [g \in 1..Len(groups) |->
                    UNION {tokensOf(groups[g][i]) : i \in 1..Len(groups[g])}]
  IN  {id \in DOMAIN icd10_codes :
         LET document == ftsDocument(icd10_codes[id])
             indexed == {document[i] : i \in 1..Len(document)}
         IN  \E g \in 1..Len(groups) : phrases[g] \subseteq indexed}

\* For each row of the table, the number dl of its tokens in the index and the
\* number tf of occurrences of term among them.
ftsStatistics(term) ==
  {LET document == ftsDocument(icd10_codes[id])
   IN  [id |-> id, dl |-> Len(document),
        tf |-> Cardinality({i \in 1..Len(document) : document[i] = term})] :
     id \in DOMAIN icd10_codes}

RECURSIVE totalTokens(_)
totalTokens(statistics) ==
  IF statistics = {} THEN 0
  ELSE LET row == CHOOSE x \in statistics : TRUE
       IN  row.dl + totalTokens(statistics \ {row})

\* The rank of FTS5 is -bm25: for a term t, with k1 = 1.2 and b = 0.75,
\*   idf(t) * tf * (k1 + 1) / (tf + k1 * (1 - b + b * dl / avgdl)),
\* tf the occurrences of t in the row, dl the tokens of the row and avgdl the
\* mean of dl over the table.  Over the rows that hold t, idf(t) is one positive
\* factor, so row a has more than row b exactly when
\*   tf_a * (total + 3 * N * dl_b) > tf_b * (total + 3 * N * dl_a)
\* with total the tokens of the table and N its rows.
rankedAhead(a, b, total, N) ==
  a.tf * (total + 3 * N * b.dl) > b.tf * (total + 3 * N * a.dl)

\* The possible results of SELECT rowid, rank FROM icd10_fts WHERE icd10_fts
\* MATCH ? ORDER BY rank LIMIT n over the rows that match: the first n of them
\* by rank (all of them if they are fewer).  The ranks of two rows are compared
\* when compared holds; otherwise, and for rows of equal rank, the rows come in
\* either order.
RECURSIVE orderByRankLimit(_, _, _, _, _)
orderByRankLimit(rows, compared, total, N, n) ==
  IF rows = {} \/ n = 0 THEN {<<>>}
  ELSE LET top == {row \in rows : \A other \in rows :
                     ~(compared /\ rankedAhead(other, row, total, N))}
       IN  UNION {{<<row.id>> \o rest :
                     rest \in orderByRankLimit(rows \ {row}, compared, total, N, n - 1)} :
                    row \in top}

\* The inner SELECT of searchCodes.  The ranks of the rows are compared for an
\* expression of one term; for any other the order is left open.
ftsSelect(expression, n) ==
  LET words == ftsWords(expression)
      term == tokenize(words[1], "")
      oneTerm == Len(words) = 1 /\ Len(term) = 1
      statistics == ftsStatistics(IF oneTerm THEN term[1] ELSE "")
      matched == ftsMatch(expression)
  IN  orderByRankLimit({row \in statistics : row.id \in matched}, oneTerm,
                       totalTokens(statistics), Cardinality(statistics), n)

\* The conditions searchCodes adds to the join for its options.
passesFilters(row, category_filter, billable_only, effective_date) ==
  /\ (category_filter # NULL /\ Len(category_filter) > 0) =>
       \E i \in 1..Len(category_filter) : category_filter[i] = row.category
  /\ billable_only => row.is_billable = 1
  /\ truthy(effective_date) => inEffect(row, effective_date)

\* LIMIT n
limitRows(rows, n) == SubSeq(rows, 1, IF Len(rows) < n THEN Len(rows) ELSE n)

\* The statement of searchCodes over the result fts of its inner SELECT: the
\* join with the conditions of the options, ORDER BY fts.rank LIMIT limit.
searchStatement(fts, limit, category_filter, billable_only, effective_date) ==
  LET joined == SelectSeq(fts, LAMBDA id :
                  passesFilters(icd10_codes[id], category_filter, billable_only,
                                effective_date))
  IN  rowsOf(limitRows(joined, limit))

\* searchCodes for the expression enhanceSearchQuery returned and the result
\* fts of the inner SELECT, which is given limit * 2 as its LIMIT: the rows
\* returned, or the error MATCH raises.
searchCodes(enhancedQuery, fts, limit, category_filter, billable_only, effective_date) ==
  IF ftsSyntaxError(enhancedQuery) THEN [threw |-> "SqliteError"]
  ELSE [returned |-> searchStatement(fts, limit, category_filter, billable_only,
                                     effective_date)]

\* The SearchResponse of the search handler, or the error of the call.
handleSearch(query, limit, category_filter, billable_only, effective_date, enhancedQuery, fts) ==
  LET results == searchCodes(enhancedQuery, fts, limit, category_filter,
                             billable_only, effective_date)
  IN  IF "threw" \in DOMAIN results THEN [error |-> "InternalError"]
      ELSE [query         |-> query,
            total_results |-> Len(results.returned),
            results       |-> results.returned,
            filters       |-> [category_filter |-> category_filter,
                               billable_only   |-> billable_only,
                               effective_date  |-> effective_date]]

-----------------------------------------------------------------------------
(* The data loader: parseCMSData.ts                                         *)

ICD10_CHAPTERS ==
  << <<"A00-B99", "Certain infectious and parasitic diseases">>,
     <<"C00-D49", "Neoplasms">>,
     <<"D50-D89", "Diseases of the blood and blood-forming organs and certain disorders involving the immune mechanism">>,
     <<"E00-E89", "Endocrine, nutritional and metabolic diseases">>,
     <<"F01-F99", "Mental, Behavioral and Neurodevelopmental disorders">>,
     <<"G00-G99", "Diseases of the nervous system">>,
     <<"H00-H59", "Diseases of the eye and adnexa">>,
     <<"H60-H95", "Diseases of the ear and mastoid process">>,
     <<"I00-I99", "Diseases of the circulatory system">>,
     <<"J00-J99", "Diseases of the respiratory system">>,
     <<"K00-K95", "Diseases of the digestive system">>,
     <<"L00-L99", "Diseases of the skin and subcutaneous tissue">>,
     <<"M00-M99", "Diseases of the musculoskeletal system and connective tissue">>,
     <<"N00-N99", "Diseases of the genitourinary system">>,
     <<"O00-O9A", "Pregnancy, childbirth and the puerperium">>,
     <<"P00-P96", "Certain conditions originating in the perinatal period">>,
     <<"Q00-Q99", "Congenital malformations, deformations and chromosomal abnormalities">>,
     <<"R00-R99", "Symptoms, signs and abnormal clinical and laboratory findings, not elsewhere classified">>,
     <<"S00-T88", "Injury, poisoning and certain other consequences of external causes">>,
     <<"V00-Y99", "External causes of morbidity">>,
     <<"Z00-Z99", "Factors influencing health status and contact with health services">> >>

isDigit(c) == c \in charsOf(Digits)

isUpperAlnum(c) == c \in charsOf(UpperLetters) \cup charsOf(Digits)

\* The end (exclusive, as a 1-based position) of the longest run of digits of s
\* that starts at position i.
RECURSIVE digitsEnd(_, _)
digitsEnd(s, i) ==
  IF i <= Len(s) /\ isDigit(SubSeq(s, i, i)) THEN digitsEnd(s, i + 1) ELSE i

RECURSIVE upperAlnumEnd(_, _)
upperAlnumEnd(s, i) ==
  IF i <= Len(s) /\ isUpperAlnum(SubSeq(s, i, i)) THEN upperAlnumEnd(s, i + 1) ELSE i

\* s.match(/\d+/)?.[0]: the first run of digits of s, NULL when it has none.
RECURSIVE matchDigits(_, _)
matchDigits(s, i) ==
  IF i > Len(s) THEN NULL
  ELSE IF isDigit(SubSeq(s, i, i)) THEN SubSeq(s, i, digitsEnd(s, i) - 1)
  ELSE matchDigits(s, i + 1)

\* parseInt of a string of digits.
RECURSIVE parseInt(_)
parseInt(numeral) ==
  IF numeral = "" THEN 0
  ELSE 10 * parseInt(SubSeq(numeral, 1, Len(numeral) - 1))
       + indexOfChar(Digits, SubSeq(numeral, Len(numeral), Len(numeral)))

\* The decimal numeral of a natural number, as a template literal writes it.
RECURSIVE numeralOf(_)
numeralOf(n) ==
  IF n < 10 THEN charAt(Digits, n)
  ELSE numeralOf(n \div 10) \o charAt(Digits, n % 10)

\* a < b on one-character strings, by code unit.
charLess(a, b) == charCode(a) < charCode(b)

codeInRange(code, start, end) ==
  LET codeChar == charAt(code, 0)
      startChar == charAt(start, 0)
      endChar == charAt(end, 0)
  IN  IF charLess(codeChar, startChar) \/ charLess(endChar, codeChar) THEN FALSE
      ELSE IF codeChar = startChar /\ codeChar = endChar
      THEN LET codeNum == parseInt(orElse(matchDigits(code, 1), "0"))
               startNum == parseInt(orElse(matchDigits(start, 1), "0"))
               endNum == parseInt(orElse(matchDigits(end, 1), "999"))
           IN  codeNum >= startNum /\ codeNum <= endNum
      ELSE TRUE

\* The loop over Object.entries(ICD10_CHAPTERS), from entry k on.
RECURSIVE chapterLoop(_, _)
chapterLoop(code, k) ==
  IF k > Len(ICD10_CHAPTERS) THEN [chapter_code |-> "", chapter_name |-> ""]
  ELSE LET range == ICD10_CHAPTERS[k][1]
           dash == indexOf(range, "-")
           start == substring(range, 0, dash)
           end == substring(range, dash + 1, Len(range))
       IN  IF codeInRange(code, start, end)
           THEN [chapter_code |-> range, chapter_name |-> ICD10_CHAPTERS[k][2]]
           ELSE chapterLoop(code, k + 1)

getChapterForCode(code) ==
  IF ~truthy(matchDigits(code, 1))
  THEN [chapter_code |-> "", chapter_name |-> ""]
  ELSE chapterLoop(code, 1)

\* code.substring(0, 3)
getCategory(code) == substring(code, 0, IF Len(code) < 3 THEN Len(code) ELSE 3)

getSubcategory(code) ==
  IF includes(code, ".") THEN code
  ELSE substring(code, 0, IF Len(code) < 4 THEN Len(code) ELSE 4)

isBillableCode(code, description) ==
  IF endsWith(code, "X") \/ endsWith(code, "x") THEN FALSE
  ELSE IF Len(code) = 3 THEN FALSE
  ELSE IF includes(code, ".") THEN TRUE
  ELSE IF Len(code) >= 4 THEN TRUE
  ELSE FALSE

headerIndicators ==
  {"CHAPTER", "BLOCK", "CATEGORY", "EXCLUDES", "INCLUDES", "NOTE:", "CODE FIRST",
   "USE ADDITIONAL", "TABULAR LIST", "(CONTINUED)"}

isHeaderLine(line) ==
  LET upperLine == toUpperCase(line)
  IN  \E indicator \in headerIndicators : includes(upperLine, indicator)

\* line.match(/^([A-Z]\d{2,3}(?:\d+)?(?:\.[A-Z0-9]+)?)\s+(.+)$/): <<code, description>>
\* for a match, <<>> for null.
matchCodeLine(line) ==
  IF Len(line) = 0 \/ SubSeq(line, 1, 1) \notin charsOf(UpperLetters) THEN <<>>
  ELSE LET afterDigits == digitsEnd(line, 2)
       IN  IF afterDigits - 2 < 2 THEN <<>>
           ELSE LET afterSuffix ==
                      IF /\ afterDigits <= Len(line)
                         /\ SubSeq(line, afterDigits, afterDigits) = "."
                         /\ upperAlnumEnd(line, afterDigits + 1) > afterDigits + 1
                      THEN upperAlnumEnd(line, afterDigits + 1)
                      ELSE afterDigits
                    rest == SubSeq(line, afterSuffix, Len(line))
                IN  IF rest = "" \/ ~isSpace(SubSeq(rest, 1, 1)) \/ trimStart(rest) = ""
                    THEN <<>>
                    ELSE <<SubSeq(line, 1, afterSuffix - 1), trimStart(rest)>>

\* The record parseCodeLine returns, <<codeData>>, or <<>> for null.
parseCodeLine(rawLine, year) ==
  LET line == trim(rawLine)
      match == matchCodeLine(line)
  IN  IF line = "" \/ isHeaderLine(line) THEN <<>>
      ELSE IF match # <<>> /\ Len(trim(match[2])) > 3
      THEN LET cleanCode == toUpperCase(trim(match[1]))
               cleanDescription == trim(match[2])
               chapter == getChapterForCode(cleanCode)
           IN  IF isHeaderLine(cleanDescription) THEN <<>>
               ELSE << [code             |-> cleanCode,
                        description      |-> cleanDescription,
                        category         |-> getCategory(cleanCode),
                        subcategory      |-> getSubcategory(cleanCode),
                        chapter_code     |-> chapter.chapter_code,
                        chapter_name     |-> chapter.chapter_name,
                        is_billable      |-> isBillableCode(cleanCode, cleanDescription),
                        is_valid_primary |-> TRUE,
                        effective_date   |-> numeralOf(year) \o "-10-01",
                        revision_year    |-> year] >>
      ELSE <<>>

-----------------------------------------------------------------------------
(* The bulk loads: loadSampleData, parseAndLoad, loadSynonymsFromConfig     *)

\* The first rows of sampleCodes.
sampleCodes ==
  << [code |-> "E10", description |-> "Type 1 diabetes mellitus",
      category |-> "E10", subcategory |-> "E10", chapter_code |-> "E00-E89",
      chapter_name |-> Endocrine, is_billable |-> FALSE, is_valid_primary |-> TRUE,
      effective_date |-> "2024-10-01", revision_year |-> 2024],
     [code |-> "E10.9", description |-> "Type 1 diabetes mellitus without complications",
      category |-> "E10", subcategory |-> "E10.9", chapter_code |-> "E00-E89",
      chapter_name |-> Endocrine, is_billable |-> TRUE, is_valid_primary |-> TRUE,
      effective_date |-> "2024-10-01", revision_year |-> 2024],
     [code |-> "E11", description |-> "Type 2 diabetes mellitus",
      category |-> "E11", subcategory |-> "E11", chapter_code |-> "E00-E89",
      chapter_name |-> Endocrine, is_billable |-> FALSE, is_valid_primary |-> TRUE,
      effective_date |-> "2024-10-01", revision_year |-> 2024] >>

\* The table codes after the INSERT OR REPLACE of insertCode.
insertedInto(codes, codeData) ==
  LET row == insertRow(codeData)
  IN  [id \in DOMAIN codes \cup {row.code} |-> IF id = row.code THEN row ELSE codes[id]]

\* The value insertCode returns: stmt.run is inside its try, so an insert the
\* store refuses (an error raised by stmt.run) is caught and reported as false.
insertCodeReturns(refusedByStore) == ~refusedByStore

\* A loop left by the error of the first insert the store refuses.
RECURSIVE sampleLoopAborting(_, _, _, _)
sampleLoopAborting(items, refused, k, load) ==
  IF k > Len(items) \/ k \in refused THEN load
  ELSE sampleLoopAborting(items, refused, k + 1,
         [codes       |-> insertedInto(load.codes, items[k]),
          loadedCount |-> load.loadedCount + 1,
          returned    |-> Append(load.returned, TRUE)])

\* for (const codeData of sampleCodes) { if (db.insertCode(codeData)) loadedCount++ }
\* from turn k on; refused holds the turns in which the store refuses the insert,
\* returned the values insertCode returned so far.
RECURSIVE sampleLoop(_, _, _, _)
sampleLoop(items, refused, k, load) ==
  IF k > Len(items) THEN load
  ELSE LET inserted == insertCodeReturns(k \in refused)
       IN  sampleLoop(items, refused, k + 1,
             [codes       |-> IF inserted THEN insertedInto(load.codes, items[k])
                              ELSE load.codes,
              loadedCount |-> load.loadedCount + (IF inserted THEN 1 ELSE 0),
              returned    |-> Append(load.returned, inserted)])

\* The loop of parseAndLoad over the lines of the file, from line k on;
\* returned holds, by line, the values insertCode returned so far.
RECURSIVE parseLoop(_, _, _, _, _)
parseLoop(lines, year, refused, k, load) ==
  IF k > Len(lines) THEN load
  ELSE LET codeData == parseCodeLine(lines[k], year)
       IN  IF codeData # <<>> /\ truthy(codeData[1].code)
           THEN LET inserted == insertCodeReturns(k \in refused)
                IN  parseLoop(lines, year, refused, k + 1,
                      [codes        |-> IF inserted THEN insertedInto(load.codes, codeData[1])
                                        ELSE load.codes,
                       loadedCount  |-> load.loadedCount + (IF inserted THEN 1 ELSE 0),
                       skippedCount |-> load.skippedCount,
                       returned     |-> Append(load.returned,
                                               [line |-> k, inserted |-> inserted])])
           ELSE parseLoop(lines, year, refused, k + 1,
                  [codes        |-> load.codes,
                   loadedCount  |-> load.loadedCount,
                   skippedCount |-> load.skippedCount + 1,
                   returned     |-> load.returned])

\* The calls db.addMedicalSynonym(term, synonym, weight, category) of the loop
\* over the synonyms of one term: weight = 1.0 - (i * 0.1), in tenths.
termCalls(category, term, synonyms) ==
  [n \in 1..Len(synonyms) |-> <<term, synonyms[n], 10 - (n - 1), category>>]

\* ... of the loop over Object.entries(terms), from entry k on.
RECURSIVE categoryCalls(_, _, _)
categoryCalls(category, terms, k) ==
  IF k > Len(terms) THEN <<>>
  ELSE termCalls(category, terms[k][1], terms[k][2]) \o categoryCalls(category, terms, k + 1)

\* ... of the loop over Object.entries(config.synonyms), from entry k on.
RECURSIVE synonymCalls(_, _)
synonymCalls(synonyms, k) ==
  IF k > Len(synonyms) THEN <<>>
  ELSE categoryCalls(synonyms[k][1], synonyms[k][2], 1) \o synonymCalls(synonyms, k + 1)

\* The value addMedicalSynonym returns: false when term.toLowerCase() or
\* synonym.toLowerCase() raises (a value of the file that is not a string) or
\* the store refuses the insert, all inside its try.
addMedicalSynonymReturns(term, synonym, refusedByStore) ==
  term # NULL /\ synonym # NULL /\ ~refusedByStore

\* The value addSearchPattern returns.
addSearchPatternReturns(pattern, refusedByStore) == pattern # NULL /\ ~refusedByStore

\* The loop over the calls of addMedicalSynonym, from call k on.
RECURSIVE synonymLoop(_, _, _, _)
synonymLoop(calls, refused, k, load) ==
  IF k > Len(calls) THEN load
  ELSE LET call == calls[k]
           added == addMedicalSynonymReturns(call[1], call[2], k \in refused)
       IN  synonymLoop(calls, refused, k + 1,
             [medical_synonyms |-> IF added
                                   THEN Append(load.medical_synonyms,
                                               addedSynonymRow(call[1], call[2], call[3], call[4]))
                                   ELSE load.medical_synonyms,
              synonymCount     |-> load.synonymCount + (IF added THEN 1 ELSE 0),
              returned         |-> Append(load.returned, added)])

\* for (const pattern of config.patterns), from pattern k on; the turns of this
\* loop are numbered after the first turns of the loop over the synonyms.
RECURSIVE patternsLoop(_, _, _, _, _)
patternsLoop(configPatterns, refused, first, k, load) ==
  IF k > Len(configPatterns) THEN load
  ELSE LET pattern == configPatterns[k]
           added == addSearchPatternReturns(pattern.pattern, (first + k) \in refused)
       IN  patternsLoop(configPatterns, refused, first, k + 1,
             [search_patterns |-> IF added
                                  THEN Append(load.search_patterns,
                                              addedPatternRow(pattern.pattern, pattern.expansion,
                                                              pattern.priority))
                                  ELSE load.search_patterns,
              patternCount    |-> load.patternCount + (IF added THEN 1 ELSE 0),
              returned        |-> Append(load.returned, added)])

\* A constructor that always starts from the built-in rows.
constructedAnew ==
  [medical_synonyms |-> [i \in 1..Len(synonymData) |-> synonymRow(synonymData[i])],
   search_patterns  |-> [i \in 1..Len(patterns) |-> patternRow(patterns[i])]]

\* The dictionary after new ICD10Database(): as it is if medical_synonyms
\* holds a row, the built-in rows otherwise.
constructed ==
  IF Len(medical_synonyms) > 0
  THEN [medical_synonyms |-> medical_synonyms, search_patterns |-> search_patterns]
  ELSE [medical_synonyms |-> [i \in 1..Len(synonymData) |-> synonymRow(synonymData[i])],
        search_patterns  |-> [i \in 1..Len(patterns) |-> patternRow(patterns[i])]]

\* loadSynonymsFromConfig for the contents config of the file.
loadSynonymsFromConfig(config, refused) ==
  LET calls == synonymCalls(config.synonyms, 1)
      synonymsLoaded == synonymLoop(calls, refused, 1,
                          [medical_synonyms |-> constructed.medical_synonyms,
                           synonymCount |-> 0, returned |-> <<>>])
      patternsLoaded == patternsLoop(config.patterns, refused, Len(calls), 1,
                          [search_patterns |-> constructed.search_patterns,
                           patternCount |-> 0, returned |-> <<>>])
  IN  [medical_synonyms |-> synonymsLoaded.medical_synonyms,
       search_patterns  |-> patternsLoaded.search_patterns,
       synonymCount     |-> synonymsLoaded.synonymCount,
       patternCount     |-> patternsLoaded.patternCount,
       returned         |-> synonymsLoaded.returned \o patternsLoaded.returned]

-----------------------------------------------------------------------------
(* The tool layer: the CallToolRequestSchema handler                        *)

McpError(code, message) == [name |-> "McpError", code |-> code, message |-> message]

\* The error of the store raised in a core operation.
SqliteError(operation) == [name |-> "SqliteError", message |-> "SQLITE_IOERR in " \o operation]

\* The core operations the handler of a tool calls, in the order of the calls.
\* handleLookup calls getHierarchy only for a code it found, with
\* include_hierarchy.
operationsCalled(name, arguments) ==
  IF name = "icd10_lookup"
  THEN IF getCode(arguments.code, arguments.effective_date) # <<>> /\ arguments.include_hierarchy
       THEN <<"getCode", "getHierarchy">> ELSE <<"getCode">>
  ELSE IF name = "icd10_search" THEN <<"searchCodes">>
  ELSE IF name = "icd10_validate_batch" THEN <<"validateCodes">>
  ELSE IF name = "icd10_hierarchy" THEN <<"getHierarchy", "getCode">>
  ELSE <<>>

callsOperation(name, arguments, operation) ==
  \E k \in 1..Len(operationsCalled(name, arguments)) :
    operationsCalled(name, arguments)[k] = operation

\* A handler: [returned |-> its response] or [threw |-> the error it ends
\* with].  No handler and no core operation has a try: the error the store
\* raises in the core operation fault ends the handler.  enhancedQuery and fts
\* are the expression and the ranked rows of a search.
handlerOutcome(name, arguments, fault, enhancedQuery, fts) ==
  IF callsOperation(name, arguments, fault) THEN [threw |-> SqliteError(fault)]
  ELSE IF name = "icd10_lookup"
  THEN [returned |-> handleLookup(arguments.code, arguments.include_hierarchy,
                                  arguments.effective_date)]
  ELSE IF name = "icd10_search"
  THEN IF "threw" \in DOMAIN searchCodes(enhancedQuery, fts, arguments.limit, <<>>, FALSE, NULL)
       THEN [threw |-> [name |-> "SqliteError", message |-> "fts5: syntax error"]]
       ELSE [returned |-> handleSearch(arguments.query, arguments.limit, <<>>, FALSE, NULL,
                                       enhancedQuery, fts)]
  ELSE IF name = "icd10_validate_batch"
  THEN [returned |-> handleValidateBatch(arguments.codes, arguments.check_billable,
                                         arguments.effective_date)]
  ELSE LET hierarchy == handleHierarchy(arguments.code, arguments.direction,
                                        arguments.max_depth)
       IN  IF "error" \in DOMAIN hierarchy
           THEN [threw |-> McpError(hierarchy.error, "No codes found for '" \o arguments.code
                                                     \o "' and no hierarchy available")]
           ELSE [returned |-> hierarchy]

ToolNames == {"icd10_lookup", "icd10_search", "icd10_validate_batch", "icd10_hierarchy"}

\* switch (name): the handler of the tool, MethodNotFound for any other name.
dispatch(name, arguments, fault, enhancedQuery, fts) ==
  IF name \in ToolNames THEN handlerOutcome(name, arguments, fault, enhancedQuery, fts)
  ELSE [threw |-> McpError("MethodNotFound", "Unknown tool: " \o name)]

\* A tool layer whose catch answers an error of the store with an empty
\* result.
callToolMasking(name, arguments, fault, enhancedQuery, fts) ==
  LET outcome == dispatch(name, arguments, fault, enhancedQuery, fts)
  IN  IF "threw" \in DOMAIN outcome /\ outcome.threw.name # "McpError"
      THEN [returned |-> [found |-> FALSE, error |-> "Code not found"]]
      ELSE outcome

\* The request handler: try { switch } catch (error) { McpError rethrown; any
\* other error wrapped in McpError(InternalError) with its message }.
callTool(name, arguments, fault, enhancedQuery, fts) ==
  LET outcome == dispatch(name, arguments, fault, enhancedQuery, fts)
  IN  IF "threw" \in DOMAIN outcome /\ outcome.threw.name # "McpError"
      THEN [threw |-> McpError("InternalError",
                               "Error executing " \o name \o ": " \o outcome.threw.message)]
      ELSE outcome

-----------------------------------------------------------------------------
(* The server process: invocations of the request handler on one thread     *)

\* An invocation that holds the thread from the first read of its handler on
\* only until that read has returned, as a handler that awaits each call of
\* the store would.
synchronousUntilRead(invocation) ==
  invocation.pc = "handler" /\ invocation.reads = <<>>

\* An invocation holds the thread from the call of the request handler until
\* the await of `return await handleX(args)`: no handler has an await in its
\* body, so its calls of the store and the construction of its response run
\* without a suspension point.
synchronous(invocation) == invocation.pc = "handler"

\* No invocation holds the thread, or only invocation i does.
threadFreeFor(i) ==
  \A j \in DOMAIN invocations : j # i => ~synchronous(invocations[j])

-----------------------------------------------------------------------------
(* Bounds and inputs of the operations                                      *)

\* Longest list of codes handed to validate-batch.
MaxBatch == 2

\* Rows appended to each dictionary table after construction.
MaxAppended == 1

\* max_depth: z.number().int().min(1).max(5)
MaxDepthLimit == 5

Directions == {"children", "parents", "siblings"}

\* The directions in which a plan of the engine scans a table.
ScanOrders == {"ascending", "descending"}

HierarchyCodes == {"E11", "E11.9", "e11.21", "E11.9.", "E1_", "E"}

ValidateCodeInputs == {"e11.9", "E119", "E11"}

\* effective_date arguments: absent, the first day of the 2024 revision and a
\* day of the 2023 revision.
EffectiveDates == {NULL, "2024-10-01", "2024-01-15"}

\* code and effective_date arguments of lookup: a date before every record, the
\* empty string, and the dates of validate-batch.
LookupCodes == {"e11.9", "E11", "E11.22", "E119"}

LookupDates == EffectiveDates \cup {"", "2023-09-30"}

\* Lines of a tabular order file and the year of its revision.
TabularLines ==
  {"E11 Type 2 diabetes", "E11.9   Type 2 diabetes w/o complications",
   "E119 Type 2 diabetes w/o complications", "T36.0X Poisoning by penicillins",
   "D60 Red cell aplasia", "O10 Pre-existing hypertension",
   "CHAPTER 4 Endocrine diseases", "e11.9 lower case", "E1 too short", "  "}

RevisionYears == {2024}

RECURSIVE seqsUpTo(_, _)
seqsUpTo(S, n) ==
  IF n = 0 THEN {<<>>}
  ELSE LET shorter == seqsUpTo(S, n - 1)
       IN  shorter \cup {Append(q, x) : q \in {r \in shorter : Len(r) = n - 1}, x \in S}

CodeLists == seqsUpTo(ValidateCodeInputs, MaxBatch) \ {<<>>}

SearchQueries ==
  {"broken arm", "  Broken ARM ", "pain in arm", "chest pain", "heart attack",
   "high blood pressure", "a b", "kidney pain!", "cancer", "pain ache",
   "broken arm, can't breathe", "can't walk"}

\* Rows of medical-synonyms.json, with the weight 1.0 - 0.1 * i of the loader.
SynonymInputs ==
  { <<"heart", "cardiac", 10, "body_parts">>,
    <<"Pain", "Algia", 10, "symptoms">> }

PatternInputs ==
  { <<"can't {ACTION}", "unable to {ACTION} OR difficulty {ACTION}", 7>>,
    <<"broken {BODYPART}", "fracture {BODYPART}", 10>> }

\* Arguments of the search tool: queries, limits and filter sets.
FilteredQueries == {"diabetes", "kidney disease", "a b"}

SearchLimits == {1, 2}

SearchFilters ==
  { [category_filter |-> NULL, billable_only |-> FALSE, effective_date |-> NULL],
    [category_filter |-> NULL, billable_only |-> TRUE, effective_date |-> NULL],
    [category_filter |-> <<"E11">>, billable_only |-> FALSE, effective_date |-> "2024-10-01"] }

\* The turns of a bulk load in which the store refuses the insert.
InsertFaults == {{}, {2}, {1, 3}}

\* The turns of the load of a configuration file in which the store refuses
\* the insert; the turns of the patterns follow those of the synonyms.
ConfigFaults == {{}, {2, 4}}

\* Tabular order files, as their lines.
TabularFiles ==
  { <<"E11 Type 2 diabetes", "E11.9   Type 2 diabetes w/o complications",
      "CHAPTER 4 Endocrine diseases">> }

\* Contents of configuration files: an excerpt of medical-synonyms.json, a
\* file with a synonym that is not a string, a file with a term of eleven
\* synonyms.
SynonymConfigs ==
  { [synonyms |-> << <<"symptoms", << <<"pain", <<"algia", "ache", "painful">> >> >> >> >>,
     patterns |-> << [pattern |-> "can't {ACTION}",
                      expansion |-> "unable to {ACTION} OR difficulty {ACTION}",
                      priority |-> 7] >>],
    [synonyms |-> << <<"body_parts", << <<"heart", <<"cardiac", NULL, "cardio">> >> >> >> >>,
     patterns |-> <<>>],
    [synonyms |-> << <<"conditions",
                       << <<"cancer", <<"malignant", "neoplasm", "tumor", "carcinoma",
                                        "sarcoma", "lymphoma", "leukemia", "melanoma",
                                        "adenoma", "glioma", "myeloma">> >> >> >> >>,
     patterns |-> <<>>] }

\* tools/call requests: name and arguments.
ToolCalls ==
  { [name |-> "icd10_lookup",
     arguments |-> [code |-> "E11.21", include_hierarchy |-> TRUE, effective_date |-> NULL]],
    [name |-> "icd10_lookup",
     arguments |-> [code |-> "e11", include_hierarchy |-> FALSE, effective_date |-> NULL]],
    [name |-> "icd10_search", arguments |-> [query |-> "diabetes", limit |-> 1]],
    [name |-> "icd10_search", arguments |-> [query |-> "a b", limit |-> 1]],
    [name |-> "icd10_validate_batch",
     arguments |-> [codes |-> <<"E11", "Z99">>, check_billable |-> TRUE,
                    effective_date |-> NULL]],
    [name |-> "icd10_hierarchy",
     arguments |-> [code |-> "E11", direction |-> "children", max_depth |-> 3]],
    [name |-> "icd10_hierarchy",
     arguments |-> [code |-> "E12", direction |-> "children", max_depth |-> 3]],
    [name |-> "icd10_delete", arguments |-> [code |-> "E11"]] }

\* The core operation in which the store raises an error during an
\* invocation, NULL for none.
StoreFaults == {NULL, "getCode", "getHierarchy", "validateCodes", "searchCodes"}

\* code arguments of the parents branch: a trailing dot, a leading dot, several
\* dots, one character, a dot alone, a stored code in lower case.
ParentsCodes == {"E11.9.", ".E11", "E.1.2", "e", ".", "e11.21"}

\* Iterations of the parents loop followed step by step; no code of
\* ParentsCodes has that many characters.
MaxIterations == 8

\* Requests in flight or answered in one run of the server.
MaxInvocations == 2

\* tools/call requests of the four tools over the sample rows.
ServerCalls ==
  { [name |-> "icd10_lookup",
     arguments |-> [code |-> "E10.9", include_hierarchy |-> TRUE, effective_date |-> NULL]],
    [name |-> "icd10_search", arguments |-> [query |-> "diabetes", limit |-> 1]],
    [name |-> "icd10_validate_batch",
     arguments |-> [codes |-> <<"E10", "Z99">>, check_billable |-> TRUE,
                    effective_date |-> NULL]],
    [name |-> "icd10_hierarchy",
     arguments |-> [code |-> "E10", direction |-> "children", max_depth |-> 3]] }

-----------------------------------------------------------------------------
(* The state machine                                                        *)

\* The state after new ICD10Database() over a new database file: no codes,
\* the built-in synonyms and patterns.
Init ==
  /\ icd10_codes = <<>>
  /\ medical_synonyms = [i \in 1..Len(synonymData) |-> synonymRow(synonymData[i])]
  /\ search_patterns = [i \in 1..Len(patterns) |-> patternRow(patterns[i])]
  /\ scan_order \in ScanOrders
  /\ request = [tool |-> "none"]
  /\ response = TRUE
  /\ parents_loop = [pc |-> "idle", code |-> "", maxDepth |-> 0, current |-> "",
                     parents |-> <<>>, iterations |-> 0]
  /\ invocations = <<>>

\* The initial states of the specifications of the code store, whose
\* operations read no dictionary table: one scan order stands for both.
InitStore == Init /\ scan_order = "ascending"

InsertCode ==
  \E codeData \in CodeInputs :
    /\ insertCode(codeData)
    /\ request' = [tool |-> "insertCode", codeData |-> codeData]
    /\ response' = TRUE
    /\ UNCHANGED <<medical_synonyms, search_patterns, scan_order,
                   parents_loop, invocations>>

HandleHierarchy ==
  \E code \in HierarchyCodes, direction \in Directions, max_depth \in 1..MaxDepthLimit :
    /\ request' = [tool |-> "icd10_hierarchy", code |-> code,
                   direction |-> direction, max_depth |-> max_depth]
    /\ response' = handleHierarchy(code, direction, max_depth)
    /\ UNCHANGED <<icd10_codes, medical_synonyms, search_patterns, scan_order,
                   parents_loop, invocations>>

\* insertCode called with any Partial<ICD10Code>.
InsertPartialCode ==
  \E codeData \in PartialCodeInputs :
    /\ insertCode(codeData)
    /\ request' = [tool |-> "insertCode", codeData |-> codeData]
    /\ response' = TRUE
    /\ UNCHANGED <<medical_synonyms, search_patterns, scan_order,
                   parents_loop, invocations>>

\* One turn of the loop of parseAndLoad over the lines of the file.
ParseCodeLine ==
  \E line \in TabularLines, year \in RevisionYears :
    LET codeData == parseCodeLine(line, year)
    IN  /\ request' = [tool |-> "parseCodeLine", line |-> line, year |-> year]
        /\ response' = codeData
        /\ IF codeData # <<>> /\ truthy(codeData[1].code)
           THEN insertCode(codeData[1])
           ELSE UNCHANGED icd10_codes
        /\ UNCHANGED <<medical_synonyms, search_patterns, scan_order,
                   parents_loop, invocations>>

\* new ICD10Database() over the database file of an earlier construction:
\* every CREATE is IF NOT EXISTS, the dictionary is initialized if empty.
Construct ==
  /\ initializeMedicalSynonyms
  /\ request' = [tool |-> "construct"]
  /\ response' = TRUE
  /\ UNCHANGED <<icd10_codes, scan_order,
                   parents_loop, invocations>>

HandleLookup ==
  \E code \in LookupCodes, include_hierarchy \in BOOLEAN, effective_date \in LookupDates :
    /\ request' = [tool |-> "icd10_lookup", code |-> code,
                   include_hierarchy |-> include_hierarchy,
                   effective_date |-> effective_date]
    /\ response' = handleLookup(code, include_hierarchy, effective_date)
    /\ UNCHANGED <<icd10_codes, medical_synonyms, search_patterns, scan_order,
                   parents_loop, invocations>>

HandleValidateBatch ==
  \E codes \in CodeLists, check_billable \in BOOLEAN, effective_date \in EffectiveDates :
    /\ request' = [tool |-> "icd10_validate_batch", codes |-> codes,
                   check_billable |-> check_billable, effective_date |-> effective_date]
    /\ response' = handleValidateBatch(codes, check_billable, effective_date)
    /\ UNCHANGED <<icd10_codes, medical_synonyms, search_patterns, scan_order,
                   parents_loop, invocations>>

\* The query expansion of searchCodes; the expression is what MATCH receives.
EnhanceSearchQuery ==
  \E query \in SearchQueries :
    \E enhancedQuery \in enhanceSearchQuery(query) :
      /\ request' = [tool |-> "icd10_search", query |-> query]
      /\ response' = [enhancedQuery |-> enhancedQuery]
      /\ UNCHANGED <<icd10_codes, medical_synonyms, search_patterns, scan_order,
                   parents_loop, invocations>>

AddMedicalSynonym ==
  \E input \in SynonymInputs :
    /\ Len(medical_synonyms) < Len(synonymData) + MaxAppended
    /\ medical_synonyms' =
         Append(medical_synonyms, addedSynonymRow(input[1], input[2], input[3], input[4]))
    /\ request' = [tool |-> "addMedicalSynonym", input |-> input]
    /\ response' = TRUE
    /\ UNCHANGED <<icd10_codes, search_patterns, scan_order,
                   parents_loop, invocations>>

AddSearchPattern ==
  \E input \in PatternInputs :
    /\ Len(search_patterns) < Len(patterns) + MaxAppended
    /\ search_patterns' =
         Append(search_patterns, addedPatternRow(input[1], input[2], input[3]))
    /\ request' = [tool |-> "addSearchPattern", input |-> input]
    /\ response' = TRUE
    /\ UNCHANGED <<icd10_codes, medical_synonyms, scan_order,
                   parents_loop, invocations>>

\* The search tool: the expansion of the query, the ranked match and the
\* filters.  The request records the expression and the rows the engine ranked
\* first.
HandleSearch ==
  \E query \in FilteredQueries :
    \E enhancedQuery \in enhanceSearchQuery(query) :
      \E limit \in SearchLimits, filters \in SearchFilters :
        \E fts \in (IF ftsSyntaxError(enhancedQuery) THEN {<<>>}
                    ELSE ftsSelect(enhancedQuery, limit * 2)) :
          /\ request' = [tool |-> "icd10_search", query |-> query, limit |-> limit,
                         filters |-> filters, enhancedQuery |-> enhancedQuery,
                         fts |-> fts]
          /\ response' = handleSearch(query, limit, filters.category_filter,
                                      filters.billable_only, filters.effective_date,
                                      enhancedQuery, fts)
          /\ UNCHANGED <<icd10_codes, medical_synonyms, search_patterns, scan_order,
                   parents_loop, invocations>>

\* loadSampleData: the constructor, the loop over sampleCodes, the count.
LoadSampleData ==
  \E refused \in InsertFaults :
    LET load == sampleLoop(sampleCodes, refused, 1,
                           [codes |-> icd10_codes, loadedCount |-> 0, returned |-> <<>>])
    IN  /\ initializeMedicalSynonyms
        /\ icd10_codes' = load.codes
        /\ request' = [tool |-> "loadSampleData", refused |-> refused]
        /\ response' = [loadedCount |-> load.loadedCount, returned |-> load.returned]
        /\ UNCHANGED <<scan_order, parents_loop, invocations>>

\* parseAndLoad over the lines of a tabular order file.
ParseAndLoad ==
  \E lines \in TabularFiles, year \in RevisionYears, refused \in InsertFaults :
    LET load == parseLoop(lines, year, refused, 1,
                          [codes |-> icd10_codes, loadedCount |-> 0, skippedCount |-> 0,
                           returned |-> <<>>])
    IN  /\ initializeMedicalSynonyms
        /\ icd10_codes' = load.codes
        /\ request' = [tool |-> "parseAndLoad", lines |-> lines, year |-> year,
                       refused |-> refused]
        /\ response' = [loadedCount |-> load.loadedCount,
                        skippedCount |-> load.skippedCount, returned |-> load.returned]
        /\ UNCHANGED <<scan_order, parents_loop, invocations>>

\* loadSynonymsFromConfig: the constructor, the loops over the synonyms and the
\* patterns of the file, the two counts.
LoadSynonymsFromConfig ==
  \E config \in SynonymConfigs, refused \in ConfigFaults :
    LET load == loadSynonymsFromConfig(config, refused)
    IN  /\ Len(medical_synonyms) <= Len(synonymData) + MaxAppended
        /\ Len(search_patterns) <= Len(patterns) + MaxAppended
        /\ medical_synonyms' = load.medical_synonyms
        /\ search_patterns' = load.search_patterns
        /\ request' = [tool |-> "loadSynonymsFromConfig", config |-> config,
                       refused |-> refused]
        /\ response' = [synonymCount |-> load.synonymCount,
                        patternCount |-> load.patternCount, returned |-> load.returned]
        /\ UNCHANGED <<icd10_codes, scan_order,
                   parents_loop, invocations>>

\* One invocation of a tool through the request handler; fault is the core
\* operation in which the store raises an error, if the handler calls it.
CallTool ==
  \E call \in ToolCalls :
    \E enhancedQuery \in (IF call.name = "icd10_search"
                          THEN enhanceSearchQuery(call.arguments.query) ELSE {""}) :
      \E fault \in {NULL} \cup {operation \in StoreFaults :
                                  callsOperation(call.name, call.arguments, operation)},
         fts \in (IF call.name # "icd10_search" \/ ftsSyntaxError(enhancedQuery) THEN {<<>>}
                  ELSE ftsSelect(enhancedQuery, call.arguments.limit * 2)) :
        /\ request' = [tool |-> "tools/call", name |-> call.name,
                       arguments |-> call.arguments, fault |-> fault,
                       enhancedQuery |-> enhancedQuery]
        /\ response' = callTool(call.name, call.arguments, fault, enhancedQuery, fts)
        /\ UNCHANGED <<icd10_codes, medical_synonyms, search_patterns, scan_order,
                   parents_loop, invocations>>

\* The parents loop of a getHierarchy call is between two of its iterations.
parentsRunning == parents_loop.pc = "while"

\* insertCode between two calls of getHierarchy.
InsertBetweenCalls == ~parentsRunning /\ InsertCode

\* getHierarchy(code, 'parents', maxDepth) up to the first test of the loop.
GetHierarchyParents ==
  \E code \in ParentsCodes, maxDepth \in 1..MaxDepthLimit :
    /\ ~parentsRunning
    /\ request' = [tool |-> "getHierarchy", code |-> code, direction |-> "parents",
                   maxDepth |-> maxDepth]
    /\ parents_loop' = [pc |-> "while", code |-> code, maxDepth |-> maxDepth,
                        current |-> toUpperCase(code), parents |-> <<>>, iterations |-> 0]
    /\ UNCHANGED <<icd10_codes, medical_synonyms, search_patterns, scan_order, response,
                   invocations>>

\* The test of the loop holds: one iteration.
ParentsIteration ==
  /\ parentsRunning
  /\ parentsCondition(parents_loop, parents_loop.maxDepth)
  /\ parents_loop.iterations < MaxIterations
  /\ parents_loop' = parentsStep(parents_loop)
  /\ UNCHANGED <<icd10_codes, medical_synonyms, search_patterns, scan_order, request,
                 response, invocations>>

\* The test of the loop fails: return parents.
ParentsReturn ==
  /\ parentsRunning
  /\ ~parentsCondition(parents_loop, parents_loop.maxDepth)
  /\ parents_loop' = [parents_loop EXCEPT !.pc = "returned"]
  /\ UNCHANGED <<icd10_codes, medical_synonyms, search_patterns, scan_order, request,
                 response, invocations>>

\* loadSampleData, run before the server is started.
LoadBeforeStart == invocations = <<>> /\ LoadSampleData

\* The transport delivers a tools/call request and the request handler is
\* called: possible only when no invocation holds the thread.
AcceptRequest ==
  \E call \in ServerCalls :
    /\ Len(invocations) < MaxInvocations
    /\ threadFreeFor(0)
    /\ invocations' = Append(invocations,
                             [name |-> call.name, arguments |-> call.arguments,
                              pc |-> "handler", reads |-> <<>>, observed |-> {},
                              enhancedQuery |-> "", fts |-> <<>>,
                              outcome |-> [pending |-> TRUE]])
    /\ UNCHANGED <<icd10_codes, medical_synonyms, search_patterns, scan_order, request,
                   response, parents_loop>>

\* The handler of invocation i calls its next core operation, which reads the
\* store.
StoreRead ==
  \E i \in DOMAIN invocations :
    LET invocation == invocations[i]
        operations == operationsCalled(invocation.name, invocation.arguments)
    IN  /\ invocation.pc = "handler"
        /\ threadFreeFor(i)
        /\ Len(invocation.reads) < Len(operations)
        /\ \E enhancedQuery \in (IF invocation.name = "icd10_search"
                                 THEN enhanceSearchQuery(invocation.arguments.query)
                                 ELSE {""}) :
             \E fts \in (IF invocation.name # "icd10_search" \/ ftsSyntaxError(enhancedQuery)
                         THEN {<<>>}
                         ELSE ftsSelect(enhancedQuery, invocation.arguments.limit * 2)) :
               invocations' =
                 [invocations EXCEPT
                    ![i] = [invocation EXCEPT
                              !.reads = Append(@, operations[Len(invocation.reads) + 1]),
                              !.observed = @ \cup {icd10_codes},
                              !.enhancedQuery = enhancedQuery,
                              !.fts = fts]]
        /\ UNCHANGED <<icd10_codes, medical_synonyms, search_patterns, scan_order, request,
                       response, parents_loop>>

\* The handler of invocation i builds its response and returns; the request
\* handler reaches its await.
BuildResponse ==
  \E i \in DOMAIN invocations :
    LET invocation == invocations[i]
    IN  /\ invocation.pc = "handler"
        /\ threadFreeFor(i)
        /\ Len(invocation.reads) =
             Len(operationsCalled(invocation.name, invocation.arguments))
        /\ invocations' =
             [invocations EXCEPT
                ![i] = [invocation EXCEPT
                          !.pc = "await",
                          !.outcome = callTool(invocation.name, invocation.arguments, NULL,
                                               invocation.enhancedQuery, invocation.fts)]]
        /\ UNCHANGED <<icd10_codes, medical_synonyms, search_patterns, scan_order, request,
                       response, parents_loop>>

\* The request handler of invocation i resumes after its await and the
\* response is sent.
Respond ==
  \E i \in DOMAIN invocations :
    LET invocation == invocations[i]
    IN  /\ invocation.pc = "await"
        /\ threadFreeFor(0)
        /\ invocations' = [invocations EXCEPT ![i] = [invocation EXCEPT !.pc = "responded"]]
        /\ request' = [tool |-> "tools/call", name |-> invocation.name,
                       arguments |-> invocation.arguments, fault |-> NULL,
                       enhancedQuery |-> invocation.enhancedQuery]
        /\ response' = invocation.outcome
        /\ UNCHANGED <<icd10_codes, medical_synonyms, search_patterns, scan_order,
                       parents_loop>>

NextHierarchy == InsertCode \/ HandleHierarchy

NextValidate == InsertCode \/ HandleValidateBatch

NextSearch == AddMedicalSynonym \/ AddSearchPattern \/ EnhanceSearchQuery

\* Lookups and validations by effective date.
NextEffective == InsertCode \/ HandleLookup \/ HandleValidateBatch

\* Lookups and hierarchy requests for codes stored or not.
NextNotFound == InsertCode \/ HandleLookup \/ HandleHierarchy

\* Inserts of sample rows and of any other record, observed by lookups.
NextInsert == InsertCode \/ InsertPartialCode \/ HandleLookup

\* The loader filling the store.
NextLoader == ParseCodeLine

\* Hierarchy requests over a store that holds subcategories such as E11.2.
NextRelatives == InsertPartialCode \/ HandleHierarchy

\* The dictionary under expansion, appends and repeated construction.
NextDictionary == NextSearch \/ Construct

\* The search tool over the code store.
NextFiltered == InsertCode \/ HandleSearch

\* The bulk loads.
NextBulk == LoadSampleData \/ ParseAndLoad \/ LoadSynonymsFromConfig

\* The parents loop of getHierarchy, iteration by iteration.
NextParents ==
  InsertBetweenCalls \/ GetHierarchyParents \/ ParentsIteration \/ ParentsReturn

\* The server: requests accepted while others await their response.
NextServer == LoadBeforeStart \/ AcceptRequest \/ StoreRead \/ BuildResponse \/ Respond

\* The request handler over the code store.
NextTools == InsertCode \/ CallTool

\* Every operation that writes the dictionary, and the tools.
NextAppendOnly ==
  AddMedicalSynonym \/ AddSearchPattern \/ LoadSynonymsFromConfig \/ CallTool

Next ==
  \/ Construct
  \/ InsertCode
  \/ ParseCodeLine
  \/ InsertPartialCode
  \/ HandleLookup
  \/ HandleHierarchy
  \/ HandleValidateBatch
  \/ EnhanceSearchQuery
  \/ AddMedicalSynonym
  \/ AddSearchPattern
  \/ HandleSearch
  \/ LoadSampleData
  \/ ParseAndLoad
  \/ LoadSynonymsFromConfig
  \/ CallTool
  \/ GetHierarchyParents
  \/ ParentsIteration
  \/ ParentsReturn
  \/ AcceptRequest
  \/ StoreRead
  \/ BuildResponse
  \/ Respond

\* The code store under hierarchy requests.
SpecHierarchy == InitStore /\ [][NextHierarchy]_vars

\* The code store under validate-batch requests.
SpecValidate == InitStore /\ [][NextValidate]_vars

\* The dictionary under query expansion and administrative appends.
SpecSearch == Init /\ [][NextSearch]_vars

SpecEffective == InitStore /\ [][NextEffective]_vars

SpecNotFound == InitStore /\ [][NextNotFound]_vars

SpecInsert == InitStore /\ [][NextInsert]_vars

SpecLoader == InitStore /\ [][NextLoader]_vars

SpecRelatives == InitStore /\ [][NextRelatives]_vars

SpecDictionary == Init /\ [][NextDictionary]_vars

SpecFiltered == Init /\ [][NextFiltered]_vars

SpecBulk == InitStore /\ [][NextBulk]_vars

SpecTools == InitStore /\ [][NextTools]_vars

SpecServer == InitStore /\ [][NextServer]_vars

\* The loop runs on the one thread of the process: a call that has started is
\* carried on until it returns.
SpecParents ==
  /\ InitStore
  /\ [][NextParents]_vars
  /\ WF_vars(ParentsIteration)
  /\ WF_vars(ParentsReturn)

SpecAppendOnly == InitStore /\ [][NextAppendOnly]_vars

Spec == Init /\ [][Next]_vars

-----------------------------------------------------------------------------
(* Query expansion: properties                                              *)

isSearch == request.tool = "icd10_search"

\* The lower-cased, trimmed query of the request.
requestQuery == normalizeQuery(request.query)

\* The body parts with which pattern row i, concretized, is a substring of q
\* (for a pattern without the placeholder: every body part or none).
matchedValues(q, i) ==
  {k \in 1..Len(bodyParts) :
     includes(q, toLowerCase(replace(search_patterns[i].pattern, "{BODYPART}", bodyParts[k])))}

matchingRows(q) == {i \in 1..Len(search_patterns) : matchedValues(q, i) # {}}

topMatchingRows(q) ==
  {i \in matchingRows(q) : \A j \in matchingRows(q) :
     search_patterns[i].priority >= search_patterns[j].priority}

\* C1: when some pattern matches the normalized query, the expression returned
\* is the expansion of a matching pattern of the highest priority among the
\* matching ones, with a matched body part in the placeholder's place, and is
\* not extended by any synonym; "broken arm" returns "fracture arm".
C1_PatternPrecedence ==
  (isSearch /\ matchingRows(requestQuery) # {}) =>
    /\ \E i \in topMatchingRows(requestQuery) : \E k \in matchedValues(requestQuery, i) :
         response.enhancedQuery = replace(search_patterns[i].expansion, "{BODYPART}", bodyParts[k])
    /\ request.query = "broken arm" => response.enhancedQuery = "fracture arm"

\* "chest pain" matches '{BODYPART} pain' (priority 8) and the literal
\* 'chest pain' (priority 9), and holds the synonym term "pain".
C1_Witness ==
  /\ isSearch
  /\ request.query = "chest pain"
  /\ Cardinality(matchingRows(requestQuery)) >= 2
  /\ response.enhancedQuery = "angina OR thoracic pain OR cardiac pain"

\* The tokens kept by the term phase, in order: stripped of non-word
\* characters and at least 3 characters long.
keptTokens(q) ==
  LET words == split(q, "")
      long(w) == Len(w) >= 3
  IN  SelectSeq([i \in 1..Len(words) |-> cleanWordOf(words[i])], long)

\* The arrangements in descending weight of the synonym rows keyed by a term.
weightArrangements(term) ==
  LET rows == {i \in 1..Len(medical_synonyms) : medical_synonyms[i].term = term}
      n == Cardinality(rows)
  IN  {a \in [1..n -> rows] :
         /\ \A x, y \in 1..n : x # y => a[x] # a[y]
         /\ \A x, y \in 1..n :
              x < y => medical_synonyms[a[x]].weight >= medical_synonyms[a[y]].weight}

\* Each token followed by its synonyms, for every choice of arrangements.
RECURSIVE tokenRuns(_)
tokenRuns(tokens) ==
  IF Len(tokens) = 0 THEN {<<>>}
  ELSE {<<Head(tokens)>> \o [x \in 1..Len(a) |-> medical_synonyms[a[x]].synonym] \o rest :
          a \in weightArrangements(Head(tokens)), rest \in tokenRuns(Tail(tokens))}

\* A sequence without its repeated elements (the first occurrence stays).
firstOccurrences(seq) ==
  LET first(i) == \A j \in 1..(i - 1) : seq[j] # seq[i]
      keep == {i \in 1..Len(seq) : first(i)}
      nth(n) == CHOOSE i \in keep : Cardinality({j \in keep : j < i}) = n - 1
  IN  [n \in 1..Cardinality(keep) |-> seq[nth(n)]]

\* C7: when no pattern matches, the expression returned is the " OR "-join of
\* the kept tokens, each followed by all the synonyms keyed by exactly that
\* token in descending weight, without repeated terms and with nothing else.
C7_TermPhase ==
  (isSearch /\ matchingRows(requestQuery) = {}) =>
    \E run \in tokenRuns(keptTokens(requestQuery)) :
      response.enhancedQuery = join(firstOccurrences(run), " OR ")

C7_Witness ==
  /\ isSearch
  /\ request.query = "kidney pain!"
  /\ matchingRows(requestQuery) = {}
  /\ response.enhancedQuery \in {"kidney OR renal OR nephro OR pain OR algia OR ache",
                                 "kidney OR renal OR nephro OR pain OR algia OR ache OR painful"}
  /\ Len(medical_synonyms) = Len(synonymData)

\* C8: when no pattern matches and no token is kept, the expression returned
\* is the normalized query itself, never the empty expression.
C8_EmptyFallback ==
  (isSearch /\ matchingRows(requestQuery) = {} /\ Len(keptTokens(requestQuery)) = 0) =>
    /\ response.enhancedQuery = requestQuery
    /\ response.enhancedQuery # ""

\* C9: when a pattern fires, the expression returned holds no placeholder
\* that was left unsubstituted; "pain in arm" returns "arm pain OR arm algia".
C9_PlaceholderSubstituted ==
  (isSearch /\ matchingRows(requestQuery) # {}) =>
    /\ ~includes(response.enhancedQuery, "{BODYPART}")
    /\ request.query = "pain in arm" => response.enhancedQuery = "arm pain OR arm algia"

\* C10: a search for "heart attack" is expanded to an expression containing
\* "myocardial infarction", one for "high blood pressure" to an expression
\* containing "hypertension".
C10_ColloquialTerms ==
  isSearch =>
    /\ request.query = "heart attack" => includes(response.enhancedQuery, "myocardial infarction")
    /\ request.query = "high blood pressure" => includes(response.enhancedQuery, "hypertension")

\* The expressions the matching rows of the highest priority would return.
topExpansions(q) ==
  UNION {{replace(search_patterns[i].expansion, "{BODYPART}", bodyParts[k]) :
            k \in matchedValues(q, i)} : i \in topMatchingRows(q)}

-----------------------------------------------------------------------------
(* Hierarchy navigation: properties                                         *)

isHierarchy(direction) ==
  request.tool = "icd10_hierarchy" /\ request.direction = direction

\* The ids of the codes getHierarchy returned to the handler (none when the
\* handler found nothing to report).
resultIds ==
  IF "error" \in DOMAIN response THEN <<>>
  ELSE [i \in 1..Len(response.results) |-> response.results[i].code]

\* The rows returned are the stored rows of their ids.
resultsAreStored ==
  "error" \notin DOMAIN response =>
    \A i \in 1..Len(response.results) :
      /\ response.results[i].code \in DOMAIN icd10_codes
      /\ response.results[i] = icd10_codes[response.results[i].code]

requestCode == toUpperCase(request.code)

\* The sequence holds every element of the set once, in ascending order.
ascendingListOf(seq, set) ==
  /\ {seq[i] : i \in 1..Len(seq)} = set
  /\ \A i \in 1..(Len(seq) - 1) : binaryLess(seq[i], seq[i + 1])

exampleStore == {"E11", "E11.9", "E11.21", "E11.22"}

\* C2: children are exactly the stored codes of which the upper-cased request
\* code is a literal proper prefix ('%' and '_' standing for themselves), in
\* ascending order of id and whatever max_depth is; over the example store
\* the children of "E11" are E11.21, E11.22, E11.9.
C2_ChildrenLiteralPrefix ==
  isHierarchy("children") =>
    /\ ascendingListOf(resultIds,
                       {id \in DOMAIN icd10_codes :
                          startsWith(id, requestCode) /\ id # requestCode})
    /\ resultsAreStored
    /\ (DOMAIN icd10_codes = exampleStore /\ request.code = "E11" /\ request.max_depth = 2)
         => resultIds = <<"E11.21", "E11.22", "E11.9">>

\* One strip from the right: a trailing dot is dropped, else the text from
\* the last dot on, else the last character.
rightStrip(s) ==
  LET dots == {i \in 1..Len(s) : SubSeq(s, i, i) = "."}
      lastDot == CHOOSE i \in dots : \A j \in dots : j <= i
  IN  IF dots # {} /\ lastDot < Len(s) THEN SubSeq(s, 1, lastDot - 1)
      ELSE SubSeq(s, 1, Len(s) - 1)

\* The successive strips of s, down to a string of at most one character.
RECURSIVE stripChain(_)
stripChain(s) ==
  IF Len(s) <= 1 THEN <<>> ELSE <<rightStrip(s)>> \o stripChain(rightStrip(s))

isStoredId(id) == id \in DOMAIN icd10_codes

firstN(seq, n) == SubSeq(seq, 1, IF Len(seq) < n THEN Len(seq) ELSE n)

\* C3: parents are the stored codes among the successive right-strips of the
\* upper-cased request code, nearest first, cut after max_depth codes; strips
\* that are not stored are skipped; over the example store the parents of
\* "E11.9" with max_depth 2 are E11 alone.
C3_ParentsByStripping ==
  isHierarchy("parents") =>
    /\ resultIds = firstN(SelectSeq(stripChain(requestCode), isStoredId), request.max_depth)
    /\ Len(resultIds) <= request.max_depth
    /\ resultsAreStored
    /\ (DOMAIN icd10_codes = exampleStore /\ request.code = "E11.9" /\ request.max_depth = 2)
         => resultIds = <<"E11">>

C3_Witness ==
  /\ isHierarchy("parents")
  /\ DOMAIN icd10_codes = exampleStore
  /\ request.code = "E11.9"
  /\ request.max_depth = 2
  /\ resultIds = <<"E11">>

isDecimal(code) == \E i \in 1..Len(code) : SubSeq(code, i, i) = "."

\* The derived parent prefix: the text before the last dot of a decimal code,
\* all but the last character of a non-decimal code.
parentPrefix(code) ==
  IF isDecimal(code)
  THEN SubSeq(code, 1, (CHOOSE i \in 1..Len(code) :
                          /\ SubSeq(code, i, i) = "."
                          /\ \A j \in (i + 1)..Len(code) : SubSeq(code, j, j) # ".") - 1)
  ELSE SubSeq(code, 1, Len(code) - 1)

\* C4: the siblings of a stored code do not include the code, have its
\* derived parent prefix, have its length when it is non-decimal, come in
\* ascending order of id, and are the same for every max_depth.
C4_Siblings ==
  (isHierarchy("siblings") /\ requestCode \in DOMAIN icd10_codes) =>
    /\ \A i \in 1..Len(resultIds) :
         /\ resultIds[i] # requestCode
         /\ parentPrefix(resultIds[i]) = parentPrefix(requestCode)
         /\ ~isDecimal(requestCode) => Len(resultIds[i]) = Len(requestCode)
    /\ \A i \in 1..(Len(resultIds) - 1) : binaryLess(resultIds[i], resultIds[i + 1])
    /\ resultsAreStored
    /\ \A d \in 1..MaxDepthLimit :
         LET again == getHierarchy(request.code, "siblings", d)
         IN  resultIds = [i \in 1..Len(again) |-> again[i].code]

\* The siblings of the category E11 while E10 and the longer E11.9 are stored.
C4_Witness ==
  /\ isHierarchy("siblings")
  /\ request.code = "E11"
  /\ {"E10", "E11", "E11.9"} \subseteq DOMAIN icd10_codes
  /\ resultIds = <<"E10">>

-----------------------------------------------------------------------------
(* Batch validation: properties                                             *)

isValidate == request.tool = "icd10_validate_batch"

\* A record is in effect at date D: it began on or before D and has not
\* ended on or before D.
inEffectAt(row, D) ==
  /\ row.effective_date # NULL => ~binaryLess(D, row.effective_date)
  /\ row.end_date # NULL => binaryLess(D, row.end_date)

\* The entry the claim prescribes for a normalized code.
prescribedEntry(code) ==
  IF /\ code \in DOMAIN icd10_codes
     /\ request.effective_date # NULL => inEffectAt(icd10_codes[code], request.effective_date)
  THEN LET row == icd10_codes[code]
           base == [valid |-> TRUE, billable |-> row.is_billable = 1,
                    description |-> row.description,
                    effective_date |-> row.effective_date, end_date |-> row.end_date]
       IN  IF request.check_billable /\ row.is_billable # 1
           THEN [valid |-> TRUE, billable |-> FALSE,
                 description |-> row.description,
                 effective_date |-> row.effective_date, end_date |-> row.end_date,
                 warning |-> "Code exists but is not billable"]
           ELSE base
  ELSE [valid |-> FALSE, billable |-> FALSE, error |-> "Code not found"]

\* C5: the result mapping has one entry per distinct upper-cased input code;
\* the entry is the valid one exactly when a stored record has that very id
\* and is in effect at the requested date, with the warning exactly when
\* check_billable is set and the code is not billable, and is the
\* "Code not found" entry otherwise; "E119" does not match a stored "E11.9".
C5_ValidationEntries ==
  isValidate =>
    LET results == response.validation_results
    IN  /\ DOMAIN results = {toUpperCase(request.codes[i]) : i \in 1..Len(request.codes)}
        /\ \A code \in DOMAIN results : results[code] = prescribedEntry(code)
        /\ "E119" \in DOMAIN results => ~results["E119"].valid

C5_Witness ==
  /\ isValidate
  /\ request.codes = <<"E119", "E11">>
  /\ request.check_billable
  /\ request.effective_date = NULL
  /\ {"E11", "E11.9"} \subseteq DOMAIN icd10_codes
  /\ ~response.validation_results["E119"].valid
  /\ response.validation_results["E11"].valid
  /\ "warning" \in DOMAIN response.validation_results["E11"]

\* C6: the summary is a reduction over the result mapping: valid_codes and
\* billable_codes count its entries with valid, with billable, and
\* invalid_codes is total_codes less valid_codes.
C6_ValidationSummary ==
  isValidate =>
    LET results == response.validation_results
    IN  /\ response.valid_codes = Cardinality({c \in DOMAIN results : results[c].valid})
        /\ response.billable_codes = Cardinality({c \in DOMAIN results : results[c].billable})
        /\ response.invalid_codes = response.total_codes - response.valid_codes

C6_Witness ==
  /\ isValidate
  /\ request.codes = <<"e11.9", "E119">>
  /\ response.valid_codes = 1
  /\ response.billable_codes = 1
  /\ response.invalid_codes = 1

-----------------------------------------------------------------------------
(* Effective dates: properties                                              *)

isLookup == request.tool = "icd10_lookup"

\* The number of a decimal numeral.
RECURSIVE numberOf(_)
numberOf(numeral) ==
  IF numeral = "" THEN 0
  ELSE 10 * numberOf(SubSeq(numeral, 1, Len(numeral) - 1))
       + indexOfChar(Digits, SubSeq(numeral, Len(numeral), Len(numeral)))

\* The day of the calendar a date YYYY-MM-DD names, as <<year, month, day>>.
calendarDay(date) ==
  <<numberOf(SubSeq(date, 1, 4)), numberOf(SubSeq(date, 6, 7)), numberOf(SubSeq(date, 9, 10))>>

\* Day a is before day b.
dayBefore(a, b) ==
  \/ a[1] < b[1]
  \/ a[1] = b[1] /\ a[2] < b[2]
  \/ a[1] = b[1] /\ a[2] = b[2] /\ a[3] < b[3]

\* effective_date <= D (or null) and end_date > D (or null), on the calendar.
inEffectOn(row, D) ==
  /\ row.effective_date # NULL => ~dayBefore(calendarDay(D), calendarDay(row.effective_date))
  /\ row.end_date # NULL => dayBefore(calendarDay(D), calendarDay(row.end_date))

\* The request carries an effective date.
requestHasDate == request.effective_date # NULL /\ request.effective_date # ""

\* The stored code of id is present for the request.
presentFor(id) ==
  /\ id \in DOMAIN icd10_codes
  /\ requestHasDate => inEffectOn(icd10_codes[id], request.effective_date)

\* C12: a lookup finds, and a validation reports as valid, exactly the stored
\* codes in effect at the requested date D: effective_date null or <= D, and
\* end_date null or > D; a code whose end_date is D is absent, and without a
\* date every stored code is present.
C12_EffectiveDate ==
  /\ isLookup =>
        LET id == toUpperCase(request.code)
        IN  /\ response.found <=> presentFor(id)
            /\ (/\ id \in DOMAIN icd10_codes
                /\ requestHasDate
                /\ icd10_codes[id].end_date = request.effective_date) => ~response.found
            /\ (id \in DOMAIN icd10_codes /\ ~requestHasDate) => response.found
  /\ isValidate =>
        \A i \in 1..Len(request.codes) :
          LET id == toUpperCase(request.codes[i])
          IN  response.validation_results[id].valid <=> presentFor(id)

\* E11.9 ends on 2024-10-01 and is looked up at that date.
C12_Witness ==
  /\ isLookup
  /\ request.code = "e11.9"
  /\ request.effective_date = "2024-10-01"
  /\ "E11.9" \in DOMAIN icd10_codes
  /\ icd10_codes["E11.9"].end_date = "2024-10-01"
  /\ ~response.found

-----------------------------------------------------------------------------
(* Codes that are not stored: properties                                    *)

isHierarchyRequest == request.tool = "icd10_hierarchy"

\* C13: a lookup of a code that is not stored answers {found: false,
\* error: "Code not found"} and is no failure; a hierarchy request fails,
\* with an invalid-parameter error, exactly when its base code is not stored
\* and nothing is derived for it, and otherwise answers with the derived
\* results and the stored base code, or a synthesized one when it is not
\* stored.
C13_NotFound ==
  /\ (isLookup /\ toUpperCase(request.code) \notin DOMAIN icd10_codes) =>
        response = [found |-> FALSE, error |-> "Code not found"]
  /\ isHierarchyRequest =>
        LET id == toUpperCase(request.code)
            derived == getHierarchy(request.code, request.direction, request.max_depth)
            fails == "error" \in DOMAIN response
        IN  /\ fails <=> (id \notin DOMAIN icd10_codes /\ Len(derived) = 0)
            /\ fails => response = [error |-> "InvalidParams"]
            /\ ~fails =>
                  /\ response.results = derived
                  /\ response.total_results = Len(derived)
                  /\ id \in DOMAIN icd10_codes => response.base_code = icd10_codes[id]
                  /\ id \notin DOMAIN icd10_codes =>
                        /\ response.base_code.code = request.code
                        /\ response.base_code.description = request.code \o " category codes"

\* "E" is not stored and has children: the answer has a synthesized base code.
C13_Witness ==
  /\ isHierarchy("children")
  /\ request.code = "E"
  /\ "E11" \in DOMAIN icd10_codes
  /\ "error" \notin DOMAIN response
  /\ response.total_results >= 1
  /\ response.base_code.description = "E category codes"

-----------------------------------------------------------------------------
(* insertCode: properties                                                   *)

\* The id under which insertCode stores a record that has a code.
insertedId(codeData) == toUpperCase(codeData.code)

\* No two stored records have the same id, also up to letter case, and
\* every record is stored under its own, upper-case id.
uniqueUpperCaseIds(store) ==
  /\ \A a, b \in DOMAIN store : toUpperCase(a) = toUpperCase(b) => a = b
  /\ \A a \in DOMAIN store : a = toUpperCase(a) /\ store[a].code = a

\* C14: after every insertCode no two stored records share an id and every
\* stored id is upper-case; the record inserted is stored under the upper-cased
\* code, in the place of the record that had that id up to letter case if
\* there was one, with the data of this insert, and no other record changes.
C14_PrimaryKey ==
  [][request'.tool = "insertCode" =>
       /\ uniqueUpperCaseIds(icd10_codes')
       /\ "code" \in DOMAIN request'.codeData =>
             LET codeData == request'.codeData
                 id == insertedId(codeData)
             IN  /\ DOMAIN icd10_codes' = DOMAIN icd10_codes \cup {id}
                 /\ \A k \in DOMAIN icd10_codes \ {id} : icd10_codes'[k] = icd10_codes[k]
                 /\ "description" \in DOMAIN codeData =>
                       icd10_codes'[id].description = codeData.description
                 /\ (\E k \in DOMAIN icd10_codes : toUpperCase(k) = id) =>
                       Cardinality(DOMAIN icd10_codes') = Cardinality(DOMAIN icd10_codes)]_vars

\* The sample row "e11.21" was inserted after the record "E11.21" of another
\* caller, or the other way round: one record is stored for the two.
C14_Witness ==
  /\ request.tool = "insertCode"
  /\ "code" \in DOMAIN request.codeData
  /\ request.codeData.code = "e11.21"
  /\ DOMAIN icd10_codes = {"E11", "E11.21"}
  /\ icd10_codes["E11.21"].description = request.codeData.description
  /\ icd10_codes["E11.21"].revision_year = 2024

\* C15: every stored record has a non-empty id and a non-empty description:
\* insertCode stores no record whose missing code or description it replaced
\* by the empty string.
C15_RequiredFields ==
  \A id \in DOMAIN icd10_codes : id # "" /\ icd10_codes[id].description # ""

-----------------------------------------------------------------------------
(* The data loader: properties                                              *)

\* The loader parsed the line of the request into a record.
isParsed == request.tool = "parseCodeLine" /\ response # <<>>

\* C16: for every code the loader parses, the billable flag it infers is true
\* when the code has at least 4 characters and a decimal point, codes that
\* end in 'X' included, and false when it has exactly 3 characters.
C16_StructuralBillability ==
  isParsed =>
    LET code == response[1].code
    IN  /\ (Len(code) >= 4 /\ \E i \in 1..Len(code) : SubSeq(code, i, i) = ".")
             => response[1].is_billable
        /\ Len(code) = 3 => ~response[1].is_billable

\* The ranges of the table that contain a code: those whose first and last
\* category enclose the category of the code (its letter and the two
\* characters after it).
rangesOf(code) ==
  LET category == SubSeq(code, 1, 3)
  IN  {k \in 1..Len(ICD10_CHAPTERS) :
         LET first == SubSeq(ICD10_CHAPTERS[k][1], 1, 3)
             last == SubSeq(ICD10_CHAPTERS[k][1], 5, 7)
         IN  /\ ~binaryLess(category, first)
             /\ ~binaryLess(last, category)}

\* C17: the chapter of a parsed code is the one range of the table that
\* contains its letter and category number, and is empty only when no range
\* does: D60 is of D50-D89, O10 of O00-O9A, E119 of E00-E89.
C17_ChapterLookup ==
  isParsed =>
    LET code == response[1].code
    IN  /\ \A k \in rangesOf(code) :
              /\ response[1].chapter_code = ICD10_CHAPTERS[k][1]
              /\ response[1].chapter_name = ICD10_CHAPTERS[k][2]
        /\ rangesOf(code) = {} => response[1].chapter_code = ""

-----------------------------------------------------------------------------
(* Parents of children: properties                                          *)

\* The ids children(c) returns.
childrenIds(c) ==
  LET rows == getHierarchy(c, "children", 1)
  IN  {rows[i].code : i \in 1..Len(rows)}

\* The stored codes c with a decimal point of which d is a child.
decimalAncestors(d) ==
  {c \in DOMAIN icd10_codes : isDecimal(c) /\ d \in childrenIds(c)}

\* C18: parents(children(c)) need not contain c: the parents of a child d of
\* a stored code c with a decimal point, E11.21 of E11.2, never contain c, at
\* any maxDepth, because the first strip of d cuts at the last dot, to E11.
C18_Asymmetry ==
  isHierarchy("parents") =>
    \A c \in decimalAncestors(requestCode) :
      \A i \in 1..Len(resultIds) : resultIds[i] # c

\* E11.2, E11.21 and E11 are stored; the parents of E11.21 are E11 alone.
C18_Witness ==
  /\ isHierarchy("parents")
  /\ request.code = "e11.21"
  /\ request.max_depth = 5
  /\ {"E11", "E11.2", "E11.21"} \subseteq DOMAIN icd10_codes
  /\ "E11.21" \in childrenIds("E11.2")
  /\ resultIds = <<"E11">>

-----------------------------------------------------------------------------
(* Repeated validation: properties                                          *)

-----------------------------------------------------------------------------
(* Repeated construction: properties                                        *)

\* C20: constructing the database again over a dictionary that has entries
\* adds no synonym and no pattern, whatever was appended before.
C20_InitializationIdempotent ==
  [][request'.tool = "construct" =>
       /\ medical_synonyms' = medical_synonyms
       /\ search_patterns' = search_patterns]_vars

\* A construction over the built-in dictionary with one appended synonym and
\* one appended pattern.
C20_Witness ==
  /\ request.tool = "construct"
  /\ Len(medical_synonyms) = Len(synonymData) + 1
  /\ Len(search_patterns) = Len(patterns) + 1
  /\ \A i \in 1..Len(patterns) : search_patterns[i] = patternRow(patterns[i])

-----------------------------------------------------------------------------
(* Filtered search: properties                                              *)

isFilteredSearch == request.tool = "icd10_search" /\ "filters" \in DOMAIN request

\* A stored code satisfies the filter set of the request.
satisfiesFilters(id) ==
  LET row == icd10_codes[id]
      filters == request.filters
  IN  /\ (filters.category_filter # NULL /\ filters.category_filter # <<>>) =>
           \E i \in DOMAIN filters.category_filter : filters.category_filter[i] = row.category
      /\ filters.billable_only => row.is_billable = 1
      /\ (filters.effective_date # NULL /\ filters.effective_date # "") =>
           inEffectAt(row, filters.effective_date)

\* The stored codes that match the expression of the request and satisfy all
\* its filters.
matchingAndSatisfying == {id \in ftsMatch(request.enhancedQuery) : satisfiesFilters(id)}

\* Those of them among the rows the engine ranked first, in rank order: they
\* are ahead of every other one.
satisfyingRankedFirst == SelectSeq(request.fts, satisfiesFilters)

\* C30: a search returns exactly the first min(k, limit) codes in rank order
\* among the k stored codes that match the expression and satisfy all filters:
\* never more than limit codes, never a code violating a filter, never fewer
\* than limit codes while at least limit matching codes satisfy the filters.
C30_FilteredSearchComplete ==
  (isFilteredSearch /\ "results" \in DOMAIN response) =>
    LET k == Cardinality(matchingAndSatisfying)
        n == IF k < request.limit THEN k ELSE request.limit
    IN  /\ Len(response.results) = n
        /\ \A i \in 1..Len(response.results) :
             /\ response.results[i].code \in matchingAndSatisfying
             /\ i <= Len(satisfyingRankedFirst) =>
                  response.results[i].code = satisfyingRankedFirst[i]

-----------------------------------------------------------------------------
(* Ids in responses: properties                                             *)

isUpperCase(id) == id = toUpperCase(id)

\* C28: every Code record returned to a caller (the lookup result, hierarchy
\* results and the hierarchy base_code, also the base code built when the base
\* code is not stored) and every key of a validation result mapping has an
\* upper-case id, whatever the letter case of the code of the request.
C28_CanonicalIds ==
  /\ (request.tool = "icd10_lookup" /\ response.found) =>
       /\ isUpperCase(response.code.code)
       /\ "hierarchy" \in DOMAIN response =>
            \A direction \in DOMAIN response.hierarchy :
              \A i \in 1..Len(response.hierarchy[direction]) :
                isUpperCase(response.hierarchy[direction][i].code)
  /\ (request.tool = "icd10_hierarchy" /\ "error" \notin DOMAIN response) =>
       /\ isUpperCase(response.base_code.code)
       /\ \A i \in 1..Len(response.results) : isUpperCase(response.results[i].code)
  /\ request.tool = "icd10_validate_batch" =>
       \A key \in DOMAIN response.validation_results : isUpperCase(key)

-----------------------------------------------------------------------------
(* Validation counts: properties                                            *)

\* C29: for every input, also one that repeats a code, invalid_codes is the
\* number of entries of validation_results with valid = false, valid_codes +
\* invalid_codes is the number of entries of validation_results, and
\* billable_codes <= valid_codes <= total_codes.
C29_CountsConsistent ==
  isValidate =>
    LET results == response.validation_results
    IN  /\ response.invalid_codes = Cardinality({c \in DOMAIN results : ~results[c].valid})
        /\ response.valid_codes + response.invalid_codes = Cardinality(DOMAIN results)
        /\ response.billable_codes <= response.valid_codes
        /\ response.valid_codes <= response.total_codes

-----------------------------------------------------------------------------
(* Appended patterns: properties                                            *)

\* The vocabularies of the placeholders of medical-synonyms.json.
body_parts_list ==
  {"arm", "leg", "bone", "head", "chest", "back", "neck", "shoulder", "knee", "hip",
   "ankle", "wrist", "elbow", "hand", "foot", "finger", "toe", "spine", "rib", "skull"}

actions_list ==
  {"breathe", "breathing", "walk", "walking", "see", "seeing", "hear", "hearing",
   "swallow", "swallowing", "sleep", "sleeping"}

\* A placeholder token with a value of its vocabulary.
placeholderBindings ==
  {<<"{BODYPART}", value>> : value \in body_parts_list}
    \cup {<<"{ACTION}", value>> : value \in actions_list}

\* text with every occurrence of the placeholder token, in either letter case,
\* replaced by value.
RECURSIVE substituted(_, _, _)
substituted(text, token, value) ==
  IF Len(text) < Len(token) THEN text
  ELSE IF toUpperCase(SubSeq(text, 1, Len(token))) = token
       THEN value \o substituted(SubSeq(text, Len(token) + 1, Len(text)), token, value)
       ELSE SubSeq(text, 1, 1) \o substituted(SubSeq(text, 2, Len(text)), token, value)

\* The placeholder values with which the pattern of row i, concretized, is
\* contained in the query q.
firingValues(q, i) ==
  {binding \in placeholderBindings :
     /\ includes(toUpperCase(search_patterns[i].pattern), binding[1])
     /\ includes(q, toLowerCase(substituted(search_patterns[i].pattern,
                                            binding[1], binding[2])))}

\* Row j is a pattern contained in q, as it stands or concretized.
containedPattern(q, j) ==
  \/ includes(q, toLowerCase(search_patterns[j].pattern))
  \/ firingValues(q, j) # {}

\* C26: a query containing a pattern added through addSearchPattern,
\* concretized with a value v of the vocabulary of its placeholder ({BODYPART}
\* or {ACTION}), matches in the pattern phase and returns the expansion of the
\* pattern with v substituted, as for a pattern loaded at startup (no other
\* pattern of the same or a higher priority being contained in the query).
C26_AppendedPatternsFire ==
  isSearch =>
    \A i \in (Len(patterns) + 1)..Len(search_patterns) :
      \A binding \in firingValues(requestQuery, i) :
        (\A j \in 1..Len(search_patterns) :
           (j # i /\ containedPattern(requestQuery, j)) =>
             search_patterns[j].priority < search_patterns[i].priority)
        => response.enhancedQuery =
             substituted(search_patterns[i].expansion, binding[1], binding[2])

-----------------------------------------------------------------------------
(* Bulk loads: properties                                                   *)

trueCount(returned) == Cardinality({k \in DOMAIN returned : returned[k]})

\* The lines of a file that parse to a record with a code.
codeLines(lines, year) ==
  {k \in 1..Len(lines) : /\ parseCodeLine(lines[k], year) # <<>>
                         /\ truthy(parseCodeLine(lines[k], year)[1].code)}

sampleLoadReported ==
  /\ Len(response.returned) = Len(sampleCodes)
  /\ \A k \in 1..Len(sampleCodes) : response.returned[k] = (k \notin request.refused)
  /\ response.loadedCount = trueCount(response.returned)
  /\ \A k \in 1..Len(sampleCodes) :
       response.returned[k] => sampleCodes[k].code \in DOMAIN icd10_codes

parseLoadReported ==
  LET returned == response.returned
      attempted == codeLines(request.lines, request.year)
  IN  /\ {returned[i].line : i \in DOMAIN returned} = attempted
      /\ Len(returned) = Cardinality(attempted)
      /\ \A i \in DOMAIN returned :
           returned[i].inserted = (returned[i].line \notin request.refused)
      /\ response.loadedCount =
           Cardinality({i \in DOMAIN returned : returned[i].inserted})
      /\ response.skippedCount = Len(request.lines) - Cardinality(attempted)

configLoadReported ==
  LET calls == synonymCalls(request.config.synonyms, 1)
      returned == response.returned
  IN  /\ Len(returned) = Len(calls) + Len(request.config.patterns)
      /\ \A k \in request.refused \cap DOMAIN returned : ~returned[k]
      /\ \A k \in 1..Len(calls) : calls[k][2] = NULL => ~returned[k]
      /\ response.synonymCount = trueCount(SubSeq(returned, 1, Len(calls)))
      /\ response.patternCount =
           trueCount(SubSeq(returned, Len(calls) + 1, Len(returned)))

\* C22: in the three bulk loads an insert that fails returns false for its
\* item and the loop goes on: every item of the batch is attempted, the items
\* after a failed one included, and the count the load reports is the number
\* of inserts that returned true.
C22_PerItemFailures ==
  /\ request.tool = "loadSampleData" => sampleLoadReported
  /\ request.tool = "parseAndLoad" => parseLoadReported
  /\ request.tool = "loadSynonymsFromConfig" => configLoadReported

\* A load of the sample rows whose second insert fails and whose third
\* succeeds.
C22_Witness ==
  /\ request.tool = "loadSampleData"
  /\ response.returned = <<TRUE, FALSE, TRUE>>
  /\ response.loadedCount = 2
  /\ "E11" \in DOMAIN icd10_codes

-----------------------------------------------------------------------------
(* Synonym weights: properties                                              *)

\* C24: every row of medical_synonyms has a weight w with 0 < w <= 1 (in
\* tenths: 0 < 10 * w <= 10).
C24_WeightRange ==
  \A i \in 1..Len(medical_synonyms) :
    medical_synonyms[i].weight > 0 /\ medical_synonyms[i].weight <= 10

-----------------------------------------------------------------------------
(* The dictionary under appends: properties                                 *)

\* Every row of old is the row of new with the same rowid.
keepsRows(old, new) == Len(old) <= Len(new) /\ SubSeq(new, 1, Len(old)) = old

\* C21: no step changes or removes a row of medical_synonyms or of
\* search_patterns (addMedicalSynonym, addSearchPattern and the load of a
\* configuration file add rows after the rows there are), and an invocation of
\* a tool leaves both tables as they are.
C21_AppendOnly ==
  [][/\ keepsRows(medical_synonyms, medical_synonyms')
     /\ keepsRows(search_patterns, search_patterns')
     /\ request'.tool = "tools/call" =>
          medical_synonyms' = medical_synonyms /\ search_patterns' = search_patterns]_vars

\* A configuration file loaded after addMedicalSynonym added a row: the row
\* added first is where it was, the rows of the file follow it.
C21_Witness ==
  /\ request.tool = "loadSynonymsFromConfig"
  /\ response.synonymCount >= 1 /\ response.patternCount >= 1
  /\ Len(medical_synonyms) >= Len(synonymData) + 2
  /\ medical_synonyms[Len(synonymData) + 1] =
       addedSynonymRow("heart", "cardiac", 10, "body_parts")
  /\ Len(search_patterns) > Len(patterns)

-----------------------------------------------------------------------------
(* Errors of the store in the tool layer: properties                        *)

isToolCall == request.tool = "tools/call"

threwMcpError(code) ==
  /\ "threw" \in DOMAIN response
  /\ response.threw.name = "McpError"
  /\ response.threw.code = code

\* C23: an invocation in which the store raises an error (in a core operation
\* the handler calls, or for a MATCH expression the engine rejects) ends with
\* the protocol error InternalError carrying the message of the store's error,
\* never with a result; the McpError of handleHierarchy (InvalidParams) and of
\* an unknown tool (MethodNotFound) reach the caller as thrown.
C23_StoreFailuresSurface ==
  isToolCall =>
    /\ request.fault # NULL =>
         /\ threwMcpError("InternalError")
         /\ response.threw.message =
              "Error executing " \o request.name \o ": SQLITE_IOERR in " \o request.fault
    /\ (request.name = "icd10_search" /\ ftsSyntaxError(request.enhancedQuery)) =>
         threwMcpError("InternalError")
    /\ ( /\ request.fault = NULL
         /\ request.name = "icd10_hierarchy"
         /\ toUpperCase(request.arguments.code) \notin DOMAIN icd10_codes
         /\ getHierarchy(request.arguments.code, request.arguments.direction,
                         request.arguments.max_depth) = <<>> ) =>
         response = [threw |-> McpError("InvalidParams",
                                        "No codes found for '" \o request.arguments.code
                                          \o "' and no hierarchy available")]
    /\ request.name \notin ToolNames =>
         response = [threw |-> McpError("MethodNotFound", "Unknown tool: " \o request.name)]

\* A lookup with include_hierarchy of a stored code, during whose
\* getHierarchy calls the store raises an error.
C23_Witness ==
  /\ isToolCall
  /\ request.name = "icd10_lookup"
  /\ request.fault = "getHierarchy"
  /\ "E11.21" \in DOMAIN icd10_codes
  /\ threwMcpError("InternalError")

-----------------------------------------------------------------------------
(* Termination of the parents loop: properties                              *)

parentsReturned == parents_loop.pc = "returned"

\* C25: every call getHierarchy(code, 'parents', maxDepth) returns; each
\* iteration of its loop leaves current strictly shorter, the loop runs at most
\* length(code) iterations, a code of one character gets no iteration and no
\* parents, and what the call returns is the value of parentsLoop.
C25_ParentsLoopTerminates ==
  /\ [][/\ ParentsIteration => Len(parents_loop'.current) < Len(parents_loop.current)
        /\ ParentsReturn =>
             parents_loop'.parents = parentsLoop(toUpperCase(parents_loop.code), <<>>,
                                                 parents_loop.maxDepth)]_vars
  /\ [](/\ parents_loop.iterations <= Len(parents_loop.code)
        /\ parents_loop.iterations + Len(parents_loop.current) <= Len(parents_loop.code)
        /\ Len(parents_loop.code) = 1 =>
             parents_loop.iterations = 0 /\ parents_loop.parents = <<>>)
  /\ (parentsRunning ~> parentsReturned)

\* The call for 'E11.9.' has returned the parents E11.9 and E11 after four
\* iterations, with E left as current.
C25_Witness ==
  /\ parentsReturned
  /\ parents_loop.code = "E11.9."
  /\ parents_loop.iterations = 4
  /\ parents_loop.current = "E"
  /\ Len(parents_loop.parents) = 2

-----------------------------------------------------------------------------
(* Invocations on one thread: properties                                    *)

\* Invocation i is in its handler: accepted, its response not yet built.
inHandler(i) == invocations[i].pc = "handler"

\* Every invocation has read one store, and a response that is built is the
\* response of its tool over that store.
singleStore ==
  \A i \in DOMAIN invocations :
    /\ Cardinality(invocations[i].observed) <= 1
    /\ invocations[i].pc # "handler" =>
         /\ invocations[i].observed = {icd10_codes}
         /\ invocations[i].outcome =
              callTool(invocations[i].name, invocations[i].arguments, NULL,
                       invocations[i].enhancedQuery, invocations[i].fts)

\* C27: while an invocation is in its handler no other invocation is accepted,
\* reads the store, builds its response or responds, so the reads of two
\* invocations never interleave; every invocation reads one store and its
\* response is the response of its tool over that store.
C27_NoInterleaving ==
  /\ [][\A i \in DOMAIN invocations :
          inHandler(i) =>
            /\ Len(invocations') = Len(invocations)
            /\ \A j \in DOMAIN invocations : j # i => invocations'[j] = invocations[j]]_vars
  /\ []singleStore

\* The second of two invocations has responded while the first, a lookup that
\* read the store twice, still awaits its turn to respond.
C27_Witness ==
  /\ Len(invocations) = 2
  /\ invocations[1].name = "icd10_lookup"
  /\ invocations[1].reads = <<"getCode", "getHierarchy">>
  /\ invocations[1].pc = "await"
  /\ invocations[2].name = "icd10_hierarchy"
  /\ invocations[2].pc = "responded"

====
